---- MODULE Spec2Model ----
(***************************************************************************)
(* slurmctld request processing (proc_req.c): the dispatcher slurmctld_req *)
(* with its RPC telemetry tables, the throttle gate, the four-axis lock    *)
(* domain and the RPC handlers, as a state machine over handler threads.   *)
(*                                                                         *)
(* A thread runs one RPC at a time.  A handler is cut into steps at the    *)
(* points where it can block: _throttle_start and each axis taken by       *)
(* lock_slurmctld.  Everything a handler does between two such points is   *)
(* one step.  The job manager, node manager and lock layer called by the   *)
(* handlers are not part of proc_req.c; they are modelled from the design  *)
(* specification and marked so in MODEL_MAP.json.                          *)
(***************************************************************************)
EXTENDS Integers, Sequences, FiniteSets, TLC

(***************************************************************************)
(* Bounds of the model.                                                    *)
(***************************************************************************)
NThreads == 2     \* handler threads of the pool
MaxJobId == 2     \* job ids 1..MaxJobId
MaxRpc == 3       \* RPCs taken off the wire in one behaviour
RpcTypeSize == 2  \* slots of the request-type table (100 in the code)
RpcUserSize == 2  \* slots of the user table (200 in the code)

Threads == 1..NThreads
JobIds == 1..MaxJobId
Nodes == {"n1", "n2"}

(***************************************************************************)
(* Identities.  uid 0 is root, SlurmUser is the uid slurmctld runs as;     *)
(* the accounting database names operators.                                *)
(***************************************************************************)
SlurmUser == 1
Operators == {3}
SuperUsers == {4}
Uids == {0, SlurmUser, 2, 3, 4, 5}

validate_slurm_user(uid) == (uid = 0) \/ (uid = SlurmUser)

validate_super_user(uid) == (uid = 0) \/ (uid = SlurmUser) \/ (uid \in SuperUsers)

validate_operator(uid) ==
    (uid = 0) \/ (uid = SlurmUser) \/ (uid \in Operators \cup SuperUsers)

(***************************************************************************)
(* Message types (slurm_msg_type_t) and other protocol constants.          *)
(***************************************************************************)
REQUEST_STATS_INFO == 2035
REQUEST_RESOURCE_ALLOCATION == 4001
REQUEST_SUBMIT_BATCH_JOB == 4003
REQUEST_JOB_READY == 4019
REQUEST_STEP_COMPLETE == 5016
REQUEST_KILL_JOB == 5032
REQUEST_JOB_INFO == 2003
REQUEST_NODE_INFO == 2007
REQUEST_PARTITION_INFO == 2009
REQUEST_JOB_STEP_CREATE == 5001
REQUEST_CANCEL_JOB_STEP == 5005
REQUEST_COMPLETE_PROLOG == 6017
REQUEST_COMPLETE_JOB_ALLOCATION == 5017
REQUEST_COMPLETE_BATCH_SCRIPT == 5018
REQUEST_COMPLETE_BATCH_JOB == 5030
MESSAGE_EPILOG_COMPLETE == 6012
MESSAGE_NODE_REGISTRATION_STATUS == 1002
REQUEST_RECONFIGURE == 1003
REQUEST_SHUTDOWN == 1005
REQUEST_SHUTDOWN_IMMEDIATE == 1006
REQUEST_PING == 1008
REQUEST_CONTROL == 1009
REQUEST_UPDATE_NODE == 3002
REQUEST_CREATE_PARTITION == 3003
REQUEST_DELETE_PARTITION == 3004
REQUEST_UPDATE_PARTITION == 3005
REQUEST_CREATE_RESERVATION == 3006
REQUEST_DELETE_RESERVATION == 3008
REQUEST_UPDATE_RESERVATION == 3009

NULL == 0
\* SLURM_BATCH_SCRIPT == NO_VAL: "no job id given" in a job description and
\* the step id of the batch script.
SLURM_BATCH_SCRIPT == 0 - 2

SLURM_SUCCESS == "SLURM_SUCCESS"
SLURM_ERROR == "SLURM_ERROR"
ESLURM_USER_ID_MISSING == "ESLURM_USER_ID_MISSING"
ESLURM_INVALID_NODE_NAME == "ESLURM_INVALID_NODE_NAME"
ESLURM_INVALID_JOB_ID == "ESLURM_INVALID_JOB_ID"
ESLURM_ALREADY_DONE == "ESLURM_ALREADY_DONE"
ESLURM_DUPLICATE_JOB_ID == "ESLURM_DUPLICATE_JOB_ID"
ESLURM_ACCESS_DENIED == "ESLURM_ACCESS_DENIED"
ESLURM_NODE_NOT_AVAIL == "ESLURM_NODE_NOT_AVAIL"
ESLURM_JOB_HELD == "ESLURM_JOB_HELD"
ESLURM_QOS_THRES == "ESLURM_QOS_THRES"
ESLURM_RESERVATION_NOT_USABLE == "ESLURM_RESERVATION_NOT_USABLE"
ESLURM_REQUESTED_PART_CONFIG_UNAVAILABLE == "ESLURM_REQUESTED_PART_CONFIG_UNAVAILABLE"
ESLURM_CAN_NOT_START_IMMEDIATELY == "ESLURM_CAN_NOT_START_IMMEDIATELY"
ESLURM_INVALID_PARTITION_NAME == "ESLURM_INVALID_PARTITION_NAME"
ESLURM_PROLOG_RUNNING == "ESLURM_PROLOG_RUNNING"
ESLURM_INVALID_ARRAY == "ESLURM_INVALID_ARRAY"
ESLURM_DISABLED == "ESLURM_DISABLED"
ESLURMD_CREDENTIAL_REVOKED == "ESLURMD_CREDENTIAL_REVOKED"
ESLURMD_UID_NOT_FOUND == "ESLURMD_UID_NOT_FOUND"
ESLURMD_GID_NOT_FOUND == "ESLURMD_GID_NOT_FOUND"
ESLURMD_INVALID_ACCT_FREQ == "ESLURMD_INVALID_ACCT_FREQ"
ESLURMD_PROLOG_FAILED == "ESLURMD_PROLOG_FAILED"
SLURM_COMMUNICATIONS_SEND_ERROR == "SLURM_COMMUNICATIONS_SEND_ERROR"
EAGAIN == "EAGAIN"
EINPROGRESS == "EINPROGRESS"
ESLURM_RESERVATION_INVALID == "ESLURM_RESERVATION_INVALID"
EINVAL == "EINVAL"
SLURM_NO_CHANGE_IN_DATA == "SLURM_NO_CHANGE_IN_DATA"
ESLURM_INVALID_JOB_CREDENTIAL == "ESLURM_INVALID_JOB_CREDENTIAL"

\* MAX(error_code, i) of two return codes: SLURM_SUCCESS is 0 and every error
\* is positive, so the result is an error as soon as one of the two is.
MAX(a, b) == IF a = SLURM_SUCCESS THEN b ELSE a

(***************************************************************************)
(* The lock domain.  A slurmctld_lock_t names a level for each axis, in    *)
(* the order {config, job, node, partition}.                               *)
(***************************************************************************)
NO_LOCK == "NO_LOCK"
READ_LOCK == "READ_LOCK"
WRITE_LOCK == "WRITE_LOCK"

NAxes == 4
Axis == [config |-> 1, job |-> 2, node |-> 3, part |-> 4]

VARIABLES
    pc,              \* [Threads -> label]: where each thread is in its RPC
    msg,             \* [Threads -> record]: the request being processed
    loc,             \* [Threads -> record]: the handler's local variables
    sync,            \* [Threads -> record]: gate and lock set being taken
    out,             \* [Threads -> record]: what the RPC has sent and queued
    acc,             \* [Threads -> string]: how the last job access was made
    nrpc,            \* number of RPCs taken off the wire so far
    active_rpc_cnt,  \* [handler -> Int]: each handler's static counter
    locks,           \* [axis -> [w, r]]: writer (0 = none) and readers
    jobs,            \* the job records of the entity store
    nodes,           \* [Nodes -> record]: the node records
    conf,            \* slurmctld_conf: last_update, defer flag, private_data
    defer_sched,     \* static of _slurm_rpc_epilog_complete
    diag,            \* slurmctld_diag_stats
    rpc_type,        \* [0..RpcTypeSize-1 -> [id, cnt, time]]
    rpc_user,        \* [0..RpcUserSize-1 -> [id, cnt, time]]
    parts,           \* the partition records of the entity store
    resvs,           \* the reservation records of the entity store
    slurmctld_config, \* slurmctld_config: shutdown_time, resume_backup, ...
    in_progress,     \* static of _slurm_rpc_reconfigure_controller
    want_nodes_reboot \* global flag: some node waits for its reboot

tvars == <<pc, msg, loc, sync, out, acc>>
svars == <<active_rpc_cnt, locks>>
dvars == <<jobs, nodes, conf, defer_sched, diag>>
rvars == <<rpc_type, rpc_user>>
avars == <<parts, resvs, slurmctld_config, in_progress, want_nodes_reboot>>
vars == <<pc, msg, loc, sync, out, acc, nrpc, active_rpc_cnt, locks, jobs,
          nodes, conf, defer_sched, diag, rpc_type, rpc_user, parts, resvs,
          slurmctld_config, in_progress, want_nodes_reboot>>

(***************************************************************************)
(* Handlers that own a static active_rpc_cnt.                              *)
(***************************************************************************)
Throttled == {"allocate_resources", "complete_job_allocation",
              "complete_batch_script", "step_complete", "submit_batch_job",
              "job_step_create", "job_step_kill"}

NoSync == [gate |-> "", set |-> <<NO_LOCK, NO_LOCK, NO_LOCK, NO_LOCK>>,
           axis |-> NAxes + 1, ret |-> ""]

NoLoc == [error_code |-> SLURM_SUCCESS, job_ptr |-> NULL, job_id |-> NULL,
          flag |-> FALSE, rpc_type_index |-> 0 - 1, rpc_user_index |-> 0 - 1,
          auth_ok |-> TRUE, reg |-> 0]

NoOut == [kind |-> "none", val |-> "", job_id |-> NULL, sched |-> FALSE,
          kick |-> FALSE, job_save |-> FALSE, node_save |-> FALSE, held |-> {}]

NoMsg == [msg_type |-> 0]

(***************************************************************************)
(* lock_slurmctld / unlock_slurmctld (locks.c).  The axes are taken one at *)
(* a time in the order config, job, node, partition; each wait is for one  *)
(* axis.  A read lock is granted when the axis has no writer, a write lock *)
(* when it has neither writer nor reader.  Unlocking never blocks.         *)
(***************************************************************************)
NextAxis(set, a) ==
    IF \E i \in a..NAxes : set[i] # NO_LOCK
    THEN CHOOSE i \in a..NAxes :
             set[i] # NO_LOCK /\ \A k \in a..(i - 1) : set[k] = NO_LOCK
    ELSE NAxes + 1

CanLock(t, a, level) ==
    IF level = WRITE_LOCK
    THEN locks[a].w = 0 /\ locks[a].r = {}
    ELSE locks[a].w = 0

Granted(lk, t, a, level) ==
    IF level = WRITE_LOCK
    THEN [lk EXCEPT ![a].w = t]
    ELSE [lk EXCEPT ![a].r = @ \cup {t}]

unlock_slurmctld(lk, t, set) ==
    [a \in 1..NAxes |->
        [w |-> IF set[a] = WRITE_LOCK /\ lk[a].w = t THEN 0 ELSE lk[a].w,
         r |-> IF set[a] = READ_LOCK THEN lk[a].r \ {t} ELSE lk[a].r]]

\* lock_slurmctld(set), then continue at ret; with a gate, _throttle_start
\* on that handler's counter comes first.
lock_slurmctld(gate, set, ret) ==
    [gate |-> gate, set |-> set, axis |-> NextAxis(set, 1), ret |-> ret]

HoldsJobLock(t) == locks[Axis.job].w = t \/ t \in locks[Axis.job].r

HoldsAny(t) == \E a \in 1..NAxes : locks[a].w = t \/ t \in locks[a].r

LockStep(t) ==
    /\ pc[t] = "lock"
    /\ LET a == sync[t].axis
           nxt == NextAxis(sync[t].set, a + 1)
       IN /\ CanLock(t, a, sync[t].set[a])
          /\ locks' = Granted(locks, t, a, sync[t].set[a])
          /\ sync' = [sync EXCEPT ![t].axis = nxt]
          /\ pc' = [pc EXCEPT ![t] = IF nxt > NAxes THEN sync[t].ret ELSE "lock"]
    /\ UNCHANGED <<msg, loc, out, acc, nrpc, active_rpc_cnt, dvars,
                   rvars, avars>>

(***************************************************************************)
(* The throttle gate.  throttle_mutex and throttle_cond are shared by all  *)
(* handlers; the counter is the calling handler's own static.              *)
(***************************************************************************)
\* The counter is tested against 1 in place of 0.
ThrottleStart_OffByOne(t) ==
    /\ pc[t] = "throttle"
    /\ IF active_rpc_cnt[sync[t].gate] <= 1
       THEN /\ active_rpc_cnt' = [active_rpc_cnt EXCEPT ![sync[t].gate] = @ + 1]
            /\ pc' = [pc EXCEPT ![t] = "lock"]
       ELSE /\ pc' = [pc EXCEPT ![t] = "cond_wait"]
            /\ UNCHANGED active_rpc_cnt
    /\ UNCHANGED <<msg, loc, sync, out, acc, nrpc, locks, dvars, rvars, avars>>

ThrottleStart(t) ==
    /\ pc[t] = "throttle"
    /\ IF active_rpc_cnt[sync[t].gate] = 0
       THEN /\ active_rpc_cnt' = [active_rpc_cnt EXCEPT ![sync[t].gate] = @ + 1]
            /\ pc' = [pc EXCEPT ![t] = "lock"]
       ELSE /\ pc' = [pc EXCEPT ![t] = "cond_wait"]
            /\ UNCHANGED active_rpc_cnt
    /\ UNCHANGED <<msg, loc, sync, out, acc, nrpc, locks, dvars, rvars, avars>>

\* _throttle_fini: the counter goes down and pthread_cond_broadcast wakes
\* every thread waiting on throttle_cond, which then tests its counter again.
\* A handler that returns without its _throttle_fini.
throttle_fini_Missing(cnt, h) == cnt

throttle_fini(cnt, h) == [cnt EXCEPT ![h] = @ - 1]

\* As Broadcast, with no waiter woken.
Broadcast_Lost(p) == p

Broadcast(p) ==
    [u \in Threads |-> IF p[u] = "cond_wait" THEN "throttle" ELSE p[u]]

(***************************************************************************)
(* The entity store: job and node records, and the job-manager and         *)
(* node-manager operations the handlers call.                              *)
(***************************************************************************)
JobFinishedStates == {"JOB_COMPLETE", "JOB_CANCELLED", "JOB_FAILED",
                      "JOB_TIMEOUT", "JOB_NODE_FAIL"}

IS_JOB_FINISHED(j) == j.job_state \in JobFinishedStates

IS_JOB_COMPLETING(j) == j.completing # {}

IS_JOB_COMPLETED(j) == IS_JOB_FINISHED(j) /\ ~IS_JOB_COMPLETING(j)

JobsWithId(js, id) == {j \in js : j.job_id = id}

\* A job pointer is modelled by the id of the record it points to.
find_job_record(js, id) == IF JobsWithId(js, id) = {} THEN NULL ELSE id

Deref(js, ptr) == CHOOSE j \in js : j.job_id = ptr

\* The job record the store holds for a job started on node set ns.
RunningJob(id, uid, ns, host) ==
    [job_id |-> id, user_id |-> uid, job_state |-> "JOB_RUNNING",
     completing |-> {}, nodes |-> ns, batch_host |-> host,
     requeue |-> TRUE, prolog_running |-> FALSE, steps |-> {}]

\* job_complete(job_id, uid, requeue, node_fail, job_return_code): ends the
\* job's allocation; Completing is set for every node that still has to
\* run its epilog.
job_complete(js, job_id, uid, requeue, job_rc) ==
    IF find_job_record(js, job_id) = NULL
    THEN [rc |-> ESLURM_INVALID_JOB_ID, jobs |-> js]
    ELSE LET j == Deref(js, job_id)
             fin == [j EXCEPT
                       !.job_state =
                           IF j.job_state = "JOB_PENDING" THEN "JOB_CANCELLED"
                           ELSE IF requeue /\ j.requeue THEN "JOB_PENDING"
                           ELSE IF job_rc = 0 THEN "JOB_COMPLETE"
                           ELSE "JOB_FAILED",
                       !.completing = j.nodes,
                       !.steps = {}]
         IN IF IS_JOB_FINISHED(j)
            THEN [rc |-> ESLURM_ALREADY_DONE, jobs |-> js]
            ELSE IF j.user_id # uid /\ ~validate_operator(uid)
            THEN [rc |-> ESLURM_USER_ID_MISSING, jobs |-> js]
            ELSE IF IS_JOB_COMPLETING(j)
            THEN [rc |-> SLURM_SUCCESS, jobs |-> js]
            ELSE [rc |-> SLURM_SUCCESS, jobs |-> (js \ {j}) \cup {fin}]

\* job_epilog_complete(job_id, node_name, return_code): notes that the
\* node's epilog is done; TRUE when this was the last one, which ends
\* Completing for the job.
job_epilog_complete(js, job_id, node_name, return_code) ==
    IF find_job_record(js, job_id) = NULL
    THEN [ret |-> FALSE, jobs |-> js]
    ELSE LET j == Deref(js, job_id)
             left == j.completing \ {node_name}
         IN [ret |-> IS_JOB_COMPLETING(j) /\ left = {},
             jobs |-> (js \ {j}) \cup {[j EXCEPT !.completing = left]}]

\* drain_nodes(nodes, reason, reason_uid)
drain_nodes(ns, node_name, reason) ==
    IF node_name \notin DOMAIN ns
    THEN [rc |-> ESLURM_INVALID_NODE_NAME, nodes |-> ns]
    ELSE [rc |-> SLURM_SUCCESS,
          nodes |-> [ns EXCEPT ![node_name] = [drain |-> TRUE, reason |-> reason]]]

(***************************************************************************)
(* Entering and leaving a handler.                                         *)
(***************************************************************************)
\* The kind of a job-record access made by thread t now.
Access(t) == IF HoldsJobLock(t) THEN "locked" ELSE "unlocked"

\* The handler for message m is called on thread t.
Invoke(t, m) ==
    /\ pc[t] = "idle"
    /\ nrpc < MaxRpc
    /\ nrpc' = nrpc + 1
    /\ pc' = [pc EXCEPT ![t] = "dispatch"]
    /\ msg' = [msg EXCEPT ![t] = m]
    /\ loc' = [loc EXCEPT ![t] = NoLoc]
    /\ out' = [out EXCEPT ![t] = NoOut]
    /\ acc' = [acc EXCEPT ![t] = "none"]
    /\ UNCHANGED <<sync, svars, dvars, rvars, avars>>

\* The handler has returned to its caller.
Return(t) ==
    /\ pc[t] = "done"
    /\ pc' = [pc EXCEPT ![t] = "idle"]
    /\ msg' = [msg EXCEPT ![t] = NoMsg]
    /\ loc' = [loc EXCEPT ![t] = NoLoc]
    /\ out' = [out EXCEPT ![t] = NoOut]
    /\ sync' = [sync EXCEPT ![t] = NoSync]
    /\ acc' = [acc EXCEPT ![t] = "none"]
    /\ UNCHANGED <<nrpc, svars, dvars, rvars, avars>>

\* slurm_send_rc_msg(msg, rc)
send_rc(o, rc) == [o EXCEPT !.kind = "rc", !.val = rc]

\* What a handler puts on the network while it holds a lock axis is kept in
\* out.held: the write of the response on the connection of the RPC, a
\* request handed to the agent queue, a record handed to the accounting
\* storage.
HeldResponse == [op |-> "write", to |-> "conn"]

\* agent_queue_request(agent_arg_ptr), also through msg_to_slurmd(msg_type)
agent_queue_request == [op |-> "enqueue", to |-> "agent"]

\* jobacct_storage_g_step_start, jobacct_storage_g_step_complete
jobacct_storage_g == [op |-> "enqueue", to |-> "acct_storage"]

held_io(o, ops) == [o EXCEPT !.held = @ \cup ops]

(***************************************************************************)
(* _slurm_rpc_epilog_complete                                              *)
(***************************************************************************)
config_update == 0

epilog_job_write_lock == <<READ_LOCK, WRITE_LOCK, WRITE_LOCK, NO_LOCK>>

EpilogComplete(t) ==
    /\ pc[t] = "dispatch"
    /\ msg[t].msg_type = MESSAGE_EPILOG_COMPLETE
    /\ IF ~validate_slurm_user(msg[t].uid)
       THEN /\ pc' = [pc EXCEPT ![t] = "done"]
            /\ UNCHANGED <<loc, sync, acc, defer_sched>>
       ELSE /\ loc' = [loc EXCEPT ![t].job_ptr =
                           find_job_record(jobs, msg[t].job_id)]
            /\ acc' = [acc EXCEPT ![t] = Access(t)]
            /\ defer_sched' = IF config_update # conf.last_update
                              THEN conf.defer ELSE defer_sched
            /\ sync' = [sync EXCEPT ![t] =
                           lock_slurmctld("", epilog_job_write_lock, "epilog_locked")]
            /\ pc' = [pc EXCEPT ![t] = "lock"]
    /\ UNCHANGED <<msg, out, nrpc, svars, jobs, nodes, conf, diag,
                   rvars, avars>>

\* The scheduler runs whatever defer_sched says.
EpilogComplete_NoDefer(t) ==
    /\ pc[t] = "epilog_locked"
    /\ LET r == job_epilog_complete(jobs, msg[t].job_id, msg[t].node_name,
                                    msg[t].return_code)
           run_scheduler == r.ret
       IN /\ jobs' = r.jobs
          /\ locks' = unlock_slurmctld(locks, t, epilog_job_write_lock)
          /\ acc' = [acc EXCEPT ![t] =
                        IF loc[t].job_ptr # NULL THEN "unlocked" ELSE "locked"]
          /\ out' = [out EXCEPT ![t].sched = run_scheduler,
                                ![t].node_save = run_scheduler,
                                ![t].job_save = run_scheduler]
          /\ pc' = [pc EXCEPT ![t] = "done"]
    /\ UNCHANGED <<msg, loc, sync, nrpc, active_rpc_cnt, nodes, conf,
                   defer_sched, diag, rvars, avars>>

EpilogComplete_Locked(t) ==
    /\ pc[t] = "epilog_locked"
    /\ LET r == job_epilog_complete(jobs, msg[t].job_id, msg[t].node_name,
                                    msg[t].return_code)
           run_scheduler == r.ret
       IN /\ jobs' = r.jobs
          /\ locks' = unlock_slurmctld(locks, t, epilog_job_write_lock)
          \* jobid2str(job_ptr, ...) after the locks are gone
          /\ acc' = [acc EXCEPT ![t] =
                        IF loc[t].job_ptr # NULL THEN "unlocked" ELSE "locked"]
          /\ out' = [out EXCEPT ![t].sched = run_scheduler /\ ~defer_sched,
                                ![t].node_save = run_scheduler,
                                ![t].job_save = run_scheduler]
          /\ pc' = [pc EXCEPT ![t] = "done"]
    /\ UNCHANGED <<msg, loc, sync, nrpc, active_rpc_cnt, nodes, conf,
                   defer_sched, diag, rvars, avars>>

(***************************************************************************)
(* _slurm_rpc_complete_job_allocation                                      *)
(***************************************************************************)
cja_job_write_lock == <<NO_LOCK, WRITE_LOCK, WRITE_LOCK, NO_LOCK>>

CompleteJobAllocation(t) ==
    /\ pc[t] = "dispatch"
    /\ msg[t].msg_type = REQUEST_COMPLETE_JOB_ALLOCATION
    /\ loc' = [loc EXCEPT ![t].job_ptr = find_job_record(jobs, msg[t].job_id)]
    /\ acc' = [acc EXCEPT ![t] = Access(t)]
    /\ sync' = [sync EXCEPT ![t] =
                   lock_slurmctld("complete_job_allocation", cja_job_write_lock,
                                  "cja_locked")]
    /\ pc' = [pc EXCEPT ![t] = "throttle"]
    /\ UNCHANGED <<msg, out, nrpc, svars, dvars, rvars, avars>>

CompleteJobAllocation_Locked(t) ==
    /\ pc[t] = "cja_locked"
    /\ LET r == job_complete(jobs, msg[t].job_id, msg[t].uid, FALSE,
                             msg[t].job_rc)
           ok == r.rc = SLURM_SUCCESS
       IN /\ jobs' = r.jobs
          /\ locks' = unlock_slurmctld(locks, t, cja_job_write_lock)
          /\ active_rpc_cnt' = throttle_fini(active_rpc_cnt, "complete_job_allocation")
          /\ loc' = [loc EXCEPT ![t].error_code = r.rc]
          /\ out' = [out EXCEPT ![t] =
                        [send_rc(@, r.rc) EXCEPT !.job_save = ok, !.node_save = ok]]
          \* trace_job(job_ptr, ...) and jobid2str(job_ptr, ...) after unlock
          /\ acc' = [acc EXCEPT ![t] =
                        IF loc[t].job_ptr # NULL THEN "unlocked" ELSE "locked"]
          /\ pc' = Broadcast([pc EXCEPT ![t] = "done"])
    /\ UNCHANGED <<msg, sync, nrpc, nodes, conf, defer_sched, diag,
                   rvars, avars>>

(***************************************************************************)
(* _slurm_rpc_complete_batch_script, as built without HAVE_BG,             *)
(* HAVE_FRONT_END and HAVE_ALPS_CRAY.                                      *)
(***************************************************************************)
cbs_job_write_lock == <<NO_LOCK, WRITE_LOCK, WRITE_LOCK, NO_LOCK>>

\* slurmd return codes that are logged only
\* ESLURMD_UID_NOT_FOUND is left out of the list.
BatchNonFatal_NoUid == {SLURM_COMMUNICATIONS_SEND_ERROR, ESLURM_USER_ID_MISSING,
                        ESLURMD_GID_NOT_FOUND, ESLURMD_INVALID_ACCT_FREQ}

BatchNonFatal == {SLURM_COMMUNICATIONS_SEND_ERROR, ESLURM_USER_ID_MISSING,
                  ESLURMD_UID_NOT_FOUND, ESLURMD_GID_NOT_FOUND,
                  ESLURMD_INVALID_ACCT_FREQ}

\* slurmd return codes of a race on job termination, reset to SLURM_SUCCESS
\* ESLURMD_CREDENTIAL_REVOKED is left out of the list.
BatchRace_NoRevoked == {ESLURM_ALREADY_DONE}

BatchRace == {ESLURM_ALREADY_DONE, ESLURMD_CREDENTIAL_REVOKED}

\* "First set node DOWN if fatal error": every other non-zero slurm_rc
\* The test of the last branch is turned around.
BatchFatal_Never(slurm_rc) ==
    /\ slurm_rc \notin BatchRace
    /\ slurm_rc \notin BatchNonFatal
    /\ slurm_rc = SLURM_SUCCESS

BatchFatal(slurm_rc) ==
    /\ slurm_rc \notin BatchRace
    /\ slurm_rc \notin BatchNonFatal
    /\ slurm_rc # SLURM_SUCCESS

\* The request comes from a node other than the job's batch host.
\* Without the comparison of the sender with batch_host.
BatchWrongNode_Never(js, m) == FALSE

BatchWrongNode(js, m) ==
    /\ find_job_record(js, m.job_id) # NULL
    /\ Deref(js, m.job_id).batch_host # ""
    /\ Deref(js, m.job_id).batch_host # m.node_name

CompleteBatchScript(t) ==
    /\ pc[t] = "dispatch"
    /\ msg[t].msg_type \in {REQUEST_COMPLETE_BATCH_SCRIPT, REQUEST_COMPLETE_BATCH_JOB}
    /\ IF ~validate_slurm_user(msg[t].uid)
       THEN /\ pc' = [pc EXCEPT ![t] = "done"]
            /\ UNCHANGED sync
       ELSE /\ sync' = [sync EXCEPT ![t] =
                           lock_slurmctld("complete_batch_script",
                                          cbs_job_write_lock, "cbs_locked")]
            /\ pc' = [pc EXCEPT ![t] = "throttle"]
    /\ UNCHANGED <<msg, loc, out, acc, nrpc, svars, dvars, rvars, avars>>

\* replace_batch_job(msg, job_ptr) answers the request itself (with a
\* replacement batch job or with SLURM_SUCCESS); run_after is its result.
CompleteBatchScript_Locked(t) ==
    /\ pc[t] = "cbs_locked"
    /\ \E run_after \in BOOLEAN, association_based_accounting \in BOOLEAN :
       LET m == msg[t]
           job_ptr == find_job_record(jobs, m.job_id)
           batch_step == /\ association_based_accounting
                         /\ job_ptr # NULL
                         /\ Deref(jobs, job_ptr).job_state # "JOB_PENDING"
           fatal == BatchFatal(m.slurm_rc)
           dr == IF fatal
                 THEN drain_nodes(nodes, m.node_name, "batch job complete failure")
                 ELSE [rc |-> SLURM_SUCCESS, nodes |-> nodes]
           job_requeue == /\ fatal
                          /\ m.job_rc # 0
                          /\ job_ptr # NULL
                          /\ Deref(jobs, job_ptr).requeue
           ep == IF m.msg_type = REQUEST_COMPLETE_BATCH_JOB
                 THEN job_epilog_complete(jobs, m.job_id, m.node_name, 0)
                 ELSE [ret |-> FALSE, jobs |-> jobs]
           jc == job_complete(ep.jobs, m.job_id, m.uid, job_requeue, m.job_rc)
           error_code == MAX(dr.rc, jc.rc)
           ok == error_code = SLURM_SUCCESS
           run_sched == ok /\ run_after
       IN /\ acc' = [acc EXCEPT ![t] = Access(t)]
          /\ locks' = unlock_slurmctld(locks, t, cbs_job_write_lock)
          /\ active_rpc_cnt' = throttle_fini(active_rpc_cnt, "complete_batch_script")
          /\ pc' = Broadcast([pc EXCEPT ![t] = "done"])
          /\ IF BatchWrongNode(jobs, m)
             THEN /\ out' = [out EXCEPT ![t] = send_rc(@, SLURM_SUCCESS)]
                  /\ loc' = [loc EXCEPT ![t].job_ptr = job_ptr]
                  /\ UNCHANGED <<jobs, nodes, diag>>
             ELSE /\ nodes' = dr.nodes
                  /\ jobs' = jc.jobs
                  /\ diag' = [diag EXCEPT
                                !.jobs_failed = IF fatal THEN @ + 1 ELSE @,
                                !.jobs_completed = IF ok THEN @ + 1 ELSE @]
                  /\ loc' = [loc EXCEPT ![t].job_ptr = job_ptr,
                                        ![t].error_code = error_code,
                                        ![t].flag = ep.ret]
                  /\ out' = [out EXCEPT ![t] =
                                [send_rc(@, error_code) EXCEPT
                                    !.sched = run_sched,
                                    !.job_save = fatal \/ ok,
                                    !.node_save = fatal,
                                    !.held = IF batch_step
                                             THEN {jobacct_storage_g} ELSE {}]]
    /\ UNCHANGED <<msg, sync, nrpc, conf, defer_sched, rvars, avars>>

(***************************************************************************)
(* _slurm_rpc_step_complete                                                *)
(***************************************************************************)
step_job_write_lock == <<NO_LOCK, WRITE_LOCK, WRITE_LOCK, NO_LOCK>>

FindStep(j, step_id) == {s \in j.steps : s.step_id = step_id}

\* step_partial_comp(req, uid, &rem, &max_rc): notes that the nodes
\* range_first..range_last of the step are done; rem is the number of nodes
\* still running.  A range that adds nothing is discarded.
step_partial_comp(js, req) ==
    IF find_job_record(js, req.job_id) = NULL
    THEN [rc |-> ESLURM_INVALID_JOB_ID, rem |-> 0, jobs |-> js]
    ELSE LET j == Deref(js, req.job_id)
         IN IF ~validate_slurm_user(req.uid)
            THEN [rc |-> ESLURM_USER_ID_MISSING, rem |-> 0, jobs |-> js]
            ELSE IF req.job_step_id = SLURM_BATCH_SCRIPT
            THEN [rc |-> SLURM_SUCCESS, rem |-> 0, jobs |-> js]
            ELSE IF FindStep(j, req.job_step_id) = {}
            THEN [rc |-> ESLURM_ALREADY_DONE, rem |-> 0, jobs |-> js]
            ELSE LET st == CHOOSE x \in FindStep(j, req.job_step_id) : TRUE
                     range == req.range_first..req.range_last
                     left == st.remaining \ range
                     st2 == [st EXCEPT !.remaining = left]
                     j2 == [j EXCEPT !.steps = (@ \ {st}) \cup {st2}]
                 IN IF range \cap st.remaining = {}
                    THEN [rc |-> ESLURM_ALREADY_DONE,
                          rem |-> Cardinality(st.remaining), jobs |-> js]
                    ELSE [rc |-> SLURM_SUCCESS, rem |-> Cardinality(left),
                          jobs |-> (js \ {j}) \cup {j2}]

\* job_step_complete(job_id, step_id, uid, requeue, job_return_code):
\* finalizes the step and deletes its record.
job_step_complete(js, job_id, step_id) ==
    IF find_job_record(js, job_id) = NULL
    THEN [rc |-> ESLURM_INVALID_JOB_ID, jobs |-> js]
    ELSE LET j == Deref(js, job_id)
         IN IF FindStep(j, step_id) = {}
            THEN [rc |-> ESLURM_INVALID_JOB_ID, jobs |-> js]
            ELSE [rc |-> SLURM_SUCCESS,
                  jobs |-> (js \ {j}) \cup
                           {[j EXCEPT !.steps = @ \ FindStep(j, step_id)]}]

StepComplete(t) ==
    /\ pc[t] = "dispatch"
    /\ msg[t].msg_type = REQUEST_STEP_COMPLETE
    /\ sync' = [sync EXCEPT ![t] =
                   lock_slurmctld("step_complete", step_job_write_lock,
                                  "step_locked")]
    /\ pc' = [pc EXCEPT ![t] = "throttle"]
    /\ UNCHANGED <<msg, loc, out, acc, nrpc, svars, dvars, rvars, avars>>

\* The return code of step_partial_comp is not looked at.
StepCompleteResult_IgnoreRc(js, req) ==
    LET pr == step_partial_comp(js, req)
        fin == IF req.job_step_id = SLURM_BATCH_SCRIPT
               THEN job_complete(pr.jobs, req.job_id, req.uid, FALSE, req.step_rc)
               ELSE job_step_complete(pr.jobs, req.job_id, req.job_step_id)
        partial == pr.rem # 0
    IN [rc |-> IF partial THEN pr.rc ELSE fin.rc,
        jobs |-> IF partial THEN pr.jobs ELSE fin.jobs]

\* What the handler does to the job records under its locks, and the
\* return code it answers with: "some error or not totally done" ends the
\* RPC after step_partial_comp, otherwise the step or the job is completed.
StepCompleteResult(js, req) ==
    LET pr == step_partial_comp(js, req)
        fin == IF req.job_step_id = SLURM_BATCH_SCRIPT
               THEN job_complete(pr.jobs, req.job_id, req.uid, FALSE, req.step_rc)
               ELSE job_step_complete(pr.jobs, req.job_id, req.job_step_id)
        partial == pr.rc # SLURM_SUCCESS \/ pr.rem # 0
    IN [rc |-> IF partial THEN pr.rc ELSE fin.rc,
        jobs |-> IF partial THEN pr.jobs ELSE fin.jobs]

StepComplete_Locked(t) ==
    /\ pc[t] = "step_locked"
    /\ LET r == StepCompleteResult(jobs, msg[t])
       IN /\ jobs' = r.jobs
          /\ acc' = [acc EXCEPT ![t] = Access(t)]
          /\ locks' = unlock_slurmctld(locks, t, step_job_write_lock)
          /\ active_rpc_cnt' = throttle_fini(active_rpc_cnt, "step_complete")
          /\ loc' = [loc EXCEPT ![t].error_code = r.rc]
          /\ out' = [out EXCEPT ![t] =
                        [send_rc(@, r.rc) EXCEPT !.job_save = (r.rc = SLURM_SUCCESS)]]
          /\ pc' = Broadcast([pc EXCEPT ![t] = "done"])
    /\ UNCHANGED <<msg, sync, nrpc, nodes, conf, defer_sched, diag,
                   rvars, avars>>

(***************************************************************************)
(* Job creation: job_allocate, validate_job_create_req and step_create of  *)
(* the job manager.                                                        *)
(***************************************************************************)
\* Return codes with which a job is accepted but left pending.
\* As JobWaiting, with ESLURM_QOS_THRES left out of the list.
JobWaiting_NoQos == {ESLURM_REQUESTED_PART_CONFIG_UNAVAILABLE,
                     ESLURM_RESERVATION_NOT_USABLE,
                     ESLURM_NODE_NOT_AVAIL, ESLURM_JOB_HELD}

JobWaiting == {ESLURM_REQUESTED_PART_CONFIG_UNAVAILABLE,
               ESLURM_RESERVATION_NOT_USABLE, ESLURM_QOS_THRES,
               ESLURM_NODE_NOT_AVAIL, ESLURM_JOB_HELD}

\* What node selection can answer for a new job.
AllocOutcomes == {SLURM_SUCCESS, ESLURM_NODE_NOT_AVAIL, ESLURM_JOB_HELD,
                  ESLURM_QOS_THRES, ESLURM_REQUESTED_PART_CONFIG_UNAVAILABLE,
                  ESLURM_INVALID_PARTITION_NAME}

\* alloc_job_id: a free id, NULL when there is none
get_next_job_id(js) ==
    IF \E i \in JobIds : JobsWithId(js, i) = {}
    THEN CHOOSE i \in JobIds :
             JobsWithId(js, i) = {} /\
             \A k \in JobIds : k < i => JobsWithId(js, k) # {}
    ELSE NULL

PendingJob(id, uid) ==
    [RunningJob(id, uid, {}, "") EXCEPT !.job_state = "JOB_PENDING"]

\* As job_allocate, without the fail-fast of an immediate request: the job
\* is left Pending and the code of the placement is returned.
job_allocate_NoFailFast(js, desc, immediate, outcome) ==
    LET explicit == desc.job_id # SLURM_BATCH_SCRIPT
        dup == explicit /\ find_job_record(js, desc.job_id) # NULL
        base == IF dup THEN js \ JobsWithId(js, desc.job_id) ELSE js
        id == IF explicit THEN desc.job_id ELSE get_next_job_id(js)
        fail(rc) == [rc |-> rc, jobs |-> js, job_ptr |-> NULL]
    IN IF dup /\ ~IS_JOB_COMPLETED(Deref(js, desc.job_id))
       THEN fail(ESLURM_DUPLICATE_JOB_ID)
       ELSE IF id = NULL
       THEN fail(EAGAIN)
       ELSE IF outcome = SLURM_SUCCESS
       THEN [rc |-> SLURM_SUCCESS, job_ptr |-> id,
             jobs |-> base \cup {RunningJob(id, desc.user_id, Nodes, "n1")}]
       ELSE IF outcome \in JobWaiting
       THEN [rc |-> outcome, job_ptr |-> id,
             jobs |-> base \cup {PendingJob(id, desc.user_id)}]
       ELSE fail(outcome)

\* job_allocate(job_specs, immediate, will_run, resp, allocate, submit_uid,
\* &job_ptr, &err_msg).  A requested job id that names a record which is
\* not completed is refused; a completed record is purged before its id is
\* given to the new job.
\* The record that has the requested id is left in the store.
job_allocate_NoPurge(js, desc, immediate, outcome) ==
    LET explicit == desc.job_id # SLURM_BATCH_SCRIPT
        dup == explicit /\ find_job_record(js, desc.job_id) # NULL
        id == IF explicit THEN desc.job_id ELSE get_next_job_id(js)
        fail(rc) == [rc |-> rc, jobs |-> js, job_ptr |-> NULL]
    IN IF dup /\ ~IS_JOB_COMPLETED(Deref(js, desc.job_id))
       THEN fail(ESLURM_DUPLICATE_JOB_ID)
       ELSE IF id = NULL
       THEN fail(EAGAIN)
       ELSE IF outcome = SLURM_SUCCESS
       THEN [rc |-> SLURM_SUCCESS, job_ptr |-> id,
             jobs |-> js \cup {RunningJob(id, desc.user_id, Nodes, "n1")}]
       ELSE IF outcome \in JobWaiting /\ immediate = 0
       THEN [rc |-> outcome, job_ptr |-> id,
             jobs |-> js \cup {PendingJob(id, desc.user_id)}]
       ELSE IF outcome \in JobWaiting
       THEN fail(ESLURM_CAN_NOT_START_IMMEDIATELY)
       ELSE fail(outcome)

job_allocate(js, desc, immediate, outcome) ==
    LET explicit == desc.job_id # SLURM_BATCH_SCRIPT
        dup == explicit /\ find_job_record(js, desc.job_id) # NULL
        base == IF dup THEN js \ JobsWithId(js, desc.job_id) ELSE js
        id == IF explicit THEN desc.job_id ELSE get_next_job_id(js)
        fail(rc) == [rc |-> rc, jobs |-> js, job_ptr |-> NULL]
    IN IF dup /\ ~IS_JOB_COMPLETED(Deref(js, desc.job_id))
       THEN fail(ESLURM_DUPLICATE_JOB_ID)
       ELSE IF id = NULL
       THEN fail(EAGAIN)
       ELSE IF outcome = SLURM_SUCCESS
       THEN [rc |-> SLURM_SUCCESS, job_ptr |-> id,
             jobs |-> base \cup {RunningJob(id, desc.user_id, Nodes, "n1")}]
       ELSE IF outcome \in JobWaiting /\ immediate = 0
       THEN [rc |-> outcome, job_ptr |-> id,
             jobs |-> base \cup {PendingJob(id, desc.user_id)}]
       ELSE IF outcome \in JobWaiting
       THEN fail(ESLURM_CAN_NOT_START_IMMEDIATELY)
       ELSE fail(outcome)

\* validate_job_create_req(job_desc, uid, &err_msg): desc.valid tells
\* whether the job description passes the validation.
validate_job_create_req(desc) ==
    IF desc.valid THEN SLURM_SUCCESS ELSE ESLURM_INVALID_PARTITION_NAME

MaxStepId == 2

\* step_create(&req, &step_rec, batch_step) for a step on all nodes of the job
step_create(js, job_id) ==
    LET j == Deref(js, job_id)
        free == {i \in 0..(MaxStepId - 1) : FindStep(j, i) = {}}
        sid == CHOOSE i \in free : \A k \in free : i <= k
        st == [step_id |-> sid, remaining |-> 0..(Cardinality(j.nodes) - 1)]
    IN IF j.job_state # "JOB_RUNNING"
       THEN [rc |-> ESLURM_DISABLED, jobs |-> js, step_id |-> 0]
       ELSE IF free = {}
       THEN [rc |-> SLURM_ERROR, jobs |-> js, step_id |-> 0]
       ELSE [rc |-> SLURM_SUCCESS, step_id |-> sid,
             jobs |-> (js \ {j}) \cup {[j EXCEPT !.steps = @ \cup {st}]}]

\* _launch_batch_step: cred_ok is the result of make_batch_job_cred.  The
\* step record made by step_create is deleted again on a later failure.
launch_batch_step(js, desc, cred_ok) ==
    LET sc == step_create(js, desc.job_id)
    IN IF desc.array_inx
       THEN [rc |-> ESLURM_INVALID_ARRAY, jobs |-> js, step_id |-> 0]
       ELSE IF sc.rc # SLURM_SUCCESS
       THEN sc
       ELSE IF Deref(js, desc.job_id).nodes = {}
       THEN [rc |-> ESLURM_INVALID_JOB_ID, jobs |-> js, step_id |-> 0]
       ELSE IF ~cred_ok
       THEN [rc |-> SLURM_ERROR, jobs |-> js, step_id |-> 0]
       ELSE sc

(***************************************************************************)
(* _kill_job_on_msg_fail and _slurm_rpc_allocate_resources                 *)
(***************************************************************************)
kill_job_write_lock == <<NO_LOCK, WRITE_LOCK, WRITE_LOCK, NO_LOCK>>

\* As KillJobOnMsgFail_Locked, with job_complete asked to requeue the job.
KillJobOnMsgFail_Requeue(t) ==
    /\ pc[t] = "kill_locked"
    /\ jobs' = job_complete(jobs, loc[t].job_id, 0, TRUE, 0).jobs
    /\ locks' = unlock_slurmctld(locks, t, kill_job_write_lock)
    /\ out' = [out EXCEPT ![t].job_save = TRUE, ![t].node_save = TRUE]
    /\ pc' = [pc EXCEPT ![t] = "done"]
    /\ UNCHANGED <<msg, loc, sync, acc, nrpc, active_rpc_cnt, nodes, conf,
                   defer_sched, diag, rvars, avars>>

\* The job is completed and the locks are never given back.
KillJobOnMsgFail_NoUnlock(t) ==
    /\ pc[t] = "kill_locked"
    /\ jobs' = job_complete(jobs, loc[t].job_id, 0, FALSE, 0).jobs
    /\ out' = [out EXCEPT ![t].job_save = TRUE, ![t].node_save = TRUE]
    /\ pc' = [pc EXCEPT ![t] = "done"]
    /\ UNCHANGED <<msg, loc, sync, acc, nrpc, active_rpc_cnt, locks, nodes,
                   conf, defer_sched, diag, rvars, avars>>

KillJobOnMsgFail_Locked(t) ==
    /\ pc[t] = "kill_locked"
    /\ jobs' = job_complete(jobs, loc[t].job_id, 0, FALSE, 0).jobs
    /\ locks' = unlock_slurmctld(locks, t, kill_job_write_lock)
    /\ out' = [out EXCEPT ![t].job_save = TRUE, ![t].node_save = TRUE]
    /\ pc' = [pc EXCEPT ![t] = "done"]
    /\ UNCHANGED <<msg, loc, sync, acc, nrpc, active_rpc_cnt, nodes, conf,
                   defer_sched, diag, rvars, avars>>

alloc_job_read_lock == <<READ_LOCK, READ_LOCK, READ_LOCK, READ_LOCK>>
alloc_job_write_lock == <<READ_LOCK, WRITE_LOCK, WRITE_LOCK, READ_LOCK>>

\* The checks made before any lock is taken, shared with the batch submit:
\* may_act tells whether uid may act for another user.
CreateChecks(m, may_act) ==
    IF ~m.alloc_node THEN ESLURM_INVALID_NODE_NAME
    ELSE IF m.uid # m.user_id /\ ~may_act THEN ESLURM_USER_ID_MISSING
    ELSE SLURM_SUCCESS

AllocateResources(t) ==
    /\ pc[t] = "dispatch"
    /\ msg[t].msg_type = REQUEST_RESOURCE_ALLOCATION
    /\ LET error_code == CreateChecks(msg[t], validate_slurm_user(msg[t].uid))
       IN IF error_code = SLURM_SUCCESS
          THEN /\ sync' = [sync EXCEPT ![t] =
                              lock_slurmctld("", alloc_job_read_lock, "alloc_validate")]
               /\ pc' = [pc EXCEPT ![t] = "lock"]
               /\ UNCHANGED <<loc, out>>
          ELSE /\ loc' = [loc EXCEPT ![t].error_code =
                              IF msg[t].peer_ok THEN error_code ELSE SLURM_ERROR]
               /\ out' = [out EXCEPT ![t] = send_rc(@, loc'[t].error_code)]
               /\ pc' = [pc EXCEPT ![t] = "done"]
               /\ UNCHANGED sync
    /\ UNCHANGED <<msg, acc, nrpc, svars, dvars, rvars, avars>>

AllocateResources_Validate(t) ==
    /\ pc[t] = "alloc_validate"
    /\ locks' = unlock_slurmctld(locks, t, alloc_job_read_lock)
    /\ LET error_code == IF msg[t].peer_ok
                         THEN validate_job_create_req(msg[t])
                         ELSE SLURM_ERROR
       IN /\ loc' = [loc EXCEPT ![t].error_code = error_code]
          /\ IF error_code = SLURM_SUCCESS
             THEN /\ sync' = [sync EXCEPT ![t] =
                                 lock_slurmctld("allocate_resources",
                                                alloc_job_write_lock, "alloc_locked")]
                  /\ pc' = [pc EXCEPT ![t] = "throttle"]
                  /\ UNCHANGED out
             ELSE /\ out' = [out EXCEPT ![t] = send_rc(@, error_code)]
                  /\ pc' = [pc EXCEPT ![t] = "done"]
                  /\ UNCHANGED sync
    /\ UNCHANGED <<msg, acc, nrpc, active_rpc_cnt, dvars, rvars, avars>>

\* send_ok is the result of slurm_send_node_msg for the allocation response.
AllocateResources_Locked(t) ==
    /\ pc[t] = "alloc_locked"
    /\ \E outcome \in AllocOutcomes, send_ok \in BOOLEAN :
       LET ja == job_allocate(jobs, msg[t], msg[t].immediate, outcome)
           job_waiting == ja.rc \in JobWaiting
           granted == ja.rc = SLURM_SUCCESS \/ (msg[t].immediate = 0 /\ job_waiting)
       IN /\ jobs' = ja.jobs
          \* _kill_job_on_msg_fail(job_ptr->job_id) after the locks are gone
          /\ acc' = [acc EXCEPT ![t] =
                        IF granted /\ ~send_ok THEN "unlocked" ELSE Access(t)]
          /\ locks' = unlock_slurmctld(locks, t, alloc_job_write_lock)
          /\ active_rpc_cnt' = throttle_fini(active_rpc_cnt, "allocate_resources")
          /\ loc' = [loc EXCEPT ![t].error_code = ja.rc, ![t].job_ptr = ja.job_ptr,
                                ![t].job_id = ja.job_ptr]
          /\ IF granted /\ send_ok
             THEN /\ out' = [out EXCEPT ![t] =
                                [kind |-> "RESPONSE_RESOURCE_ALLOCATION",
                                 val |-> ja.rc, job_id |-> ja.job_ptr,
                                 sched |-> FALSE, kick |-> FALSE,
                                 job_save |-> TRUE, node_save |-> TRUE,
                                 held |-> {}]]
                  /\ pc' = Broadcast([pc EXCEPT ![t] = "done"])
                  /\ UNCHANGED sync
             ELSE IF granted
             THEN /\ sync' = [sync EXCEPT ![t] =
                                 lock_slurmctld("", kill_job_write_lock, "kill_locked")]
                  /\ pc' = Broadcast([pc EXCEPT ![t] = "lock"])
                  /\ out' = [out EXCEPT ![t].kind = "send_failed"]
             ELSE /\ out' = [out EXCEPT ![t] = send_rc(@, ja.rc)]
                  /\ pc' = Broadcast([pc EXCEPT ![t] = "done"])
                  /\ UNCHANGED sync
    /\ UNCHANGED <<msg, nrpc, nodes, conf, defer_sched, diag, rvars, avars>>

(***************************************************************************)
(* _slurm_rpc_submit_batch_job, as built without HAVE_FRONT_END            *)
(***************************************************************************)
submit_job_read_lock == <<READ_LOCK, READ_LOCK, READ_LOCK, READ_LOCK>>
submit_job_write_lock == <<NO_LOCK, WRITE_LOCK, READ_LOCK, READ_LOCK>>

\* Return codes of job_allocate answered with a RESPONSE_SUBMIT_BATCH_JOB
SubmitAccepted == {SLURM_SUCCESS} \cup JobWaiting

submit_response(o, job_id, rc) ==
    [o EXCEPT !.kind = "RESPONSE_SUBMIT_BATCH_JOB", !.val = rc,
              !.job_id = job_id, !.job_save = TRUE]

SubmitBatchJob(t) ==
    /\ pc[t] = "dispatch"
    /\ msg[t].msg_type = REQUEST_SUBMIT_BATCH_JOB
    /\ LET error_code == CreateChecks(msg[t], validate_super_user(msg[t].uid))
       IN IF error_code = SLURM_SUCCESS
          THEN /\ sync' = [sync EXCEPT ![t] =
                              lock_slurmctld("", submit_job_read_lock, "submit_validate")]
               /\ pc' = [pc EXCEPT ![t] = "lock"]
               /\ UNCHANGED <<loc, out>>
          ELSE /\ loc' = [loc EXCEPT ![t].error_code = error_code]
               /\ out' = [out EXCEPT ![t] = send_rc(@, error_code)]
               /\ pc' = [pc EXCEPT ![t] = "done"]
               /\ UNCHANGED sync
    /\ UNCHANGED <<msg, acc, nrpc, svars, dvars, rvars, avars>>

\* The validation without its unlock_slurmctld(job_read_lock).
SubmitBatchJob_KeepsReadLock(t) ==
    /\ pc[t] = "submit_validate"
    /\ locks' = locks
    /\ LET error_code == validate_job_create_req(msg[t])
       IN /\ loc' = [loc EXCEPT ![t].error_code = error_code]
          /\ IF error_code = SLURM_SUCCESS
             THEN /\ sync' = [sync EXCEPT ![t] =
                                 lock_slurmctld("submit_batch_job",
                                                submit_job_write_lock, "submit_locked")]
                  /\ pc' = [pc EXCEPT ![t] = "throttle"]
                  /\ UNCHANGED out
             ELSE /\ out' = [out EXCEPT ![t] = send_rc(@, error_code)]
                  /\ pc' = [pc EXCEPT ![t] = "done"]
                  /\ UNCHANGED sync
    /\ UNCHANGED <<msg, acc, nrpc, active_rpc_cnt, dvars, rvars, avars>>

SubmitBatchJob_Validate(t) ==
    /\ pc[t] = "submit_validate"
    /\ locks' = unlock_slurmctld(locks, t, submit_job_read_lock)
    /\ LET error_code == validate_job_create_req(msg[t])
       IN /\ loc' = [loc EXCEPT ![t].error_code = error_code]
          /\ IF error_code = SLURM_SUCCESS
             THEN /\ sync' = [sync EXCEPT ![t] =
                                 lock_slurmctld("submit_batch_job",
                                                submit_job_write_lock, "submit_locked")]
                  /\ pc' = [pc EXCEPT ![t] = "throttle"]
                  /\ UNCHANGED out
             ELSE /\ out' = [out EXCEPT ![t] = send_rc(@, error_code)]
                  /\ pc' = [pc EXCEPT ![t] = "done"]
                  /\ UNCHANGED sync
    /\ UNCHANGED <<msg, acc, nrpc, active_rpc_cnt, dvars, rvars, avars>>

\* The batch launch without the test of prolog_running.
SubmitBatchJob_NoPrologTest(t) ==
    /\ pc[t] = "submit_locked"
    /\ \E outcome \in AllocOutcomes, cred_ok \in BOOLEAN :
       LET m == msg[t]
           found == IF m.job_id # SLURM_BATCH_SCRIPT
                    THEN find_job_record(jobs, m.job_id) ELSE NULL
           finished == found # NULL /\ IS_JOB_FINISHED(Deref(jobs, found))
           job_ptr == IF finished THEN NULL ELSE found
           ls == launch_batch_step(jobs, m, cred_ok)
           ja == job_allocate(jobs, m, m.immediate, outcome)
           error_code == IF m.immediate # 0 /\ ja.rc # SLURM_SUCCESS
                         THEN ESLURM_CAN_NOT_START_IMMEDIATELY ELSE ja.rc
           accepted == /\ ~finished \/ ~IS_JOB_COMPLETING(Deref(jobs, found))
                       /\ job_ptr = NULL
                       /\ error_code \in SubmitAccepted
                       /\ ja.job_ptr # NULL
           \* submit_msg.job_id = job_ptr->job_id after the locks are gone
       IN /\ acc' = [acc EXCEPT ![t] = IF accepted THEN "unlocked" ELSE Access(t)]
          /\ locks' = unlock_slurmctld(locks, t, submit_job_write_lock)
          /\ active_rpc_cnt' = throttle_fini(active_rpc_cnt, "submit_batch_job")
          /\ pc' = Broadcast([pc EXCEPT ![t] = "done"])
          /\ IF finished /\ IS_JOB_COMPLETING(Deref(jobs, found))
             THEN /\ out' = [out EXCEPT ![t] =
                                held_io(send_rc(@, ESLURM_DUPLICATE_JOB_ID), {HeldResponse})]
                  /\ UNCHANGED <<jobs, loc>>
             ELSE IF job_ptr # NULL /\ Deref(jobs, job_ptr).user_id # m.uid
             THEN /\ out' = [out EXCEPT ![t] =
                                held_io(send_rc(@, ESLURM_USER_ID_MISSING), {HeldResponse})]
                  /\ UNCHANGED <<jobs, loc>>
             ELSE IF job_ptr # NULL
             THEN /\ jobs' = ls.jobs
                  /\ loc' = [loc EXCEPT ![t].error_code = ls.rc,
                                        ![t].job_ptr = job_ptr]
                  /\ out' = [out EXCEPT ![t] =
                                IF ls.rc # SLURM_SUCCESS THEN send_rc(@, ls.rc)
                                ELSE held_io(submit_response(@, m.job_id, ls.rc),
                                             {agent_queue_request})]
             ELSE /\ jobs' = ja.jobs
                  /\ loc' = [loc EXCEPT ![t].error_code = error_code,
                                        ![t].job_ptr = ja.job_ptr,
                                        ![t].job_id = ja.job_ptr]
                  /\ out' = [out EXCEPT ![t] =
                                IF error_code \notin SubmitAccepted
                                THEN send_rc(@, error_code)
                                ELSE IF ja.job_ptr = NULL
                                THEN [@ EXCEPT !.kind = "fatal"]
                                ELSE [submit_response(@, ja.job_ptr, error_code)
                                         EXCEPT !.node_save = TRUE, !.kick = TRUE]]
    /\ UNCHANGED <<msg, sync, nrpc, nodes, conf, defer_sched, diag,
                   rvars, avars>>

SubmitBatchJob_Locked(t) ==
    /\ pc[t] = "submit_locked"
    /\ \E outcome \in AllocOutcomes, cred_ok \in BOOLEAN :
       LET m == msg[t]
           found == IF m.job_id # SLURM_BATCH_SCRIPT
                    THEN find_job_record(jobs, m.job_id) ELSE NULL
           finished == found # NULL /\ IS_JOB_FINISHED(Deref(jobs, found))
           job_ptr == IF finished THEN NULL ELSE found
           ls == launch_batch_step(jobs, m, cred_ok)
           ja == job_allocate(jobs, m, m.immediate, outcome)
           error_code == IF m.immediate # 0 /\ ja.rc # SLURM_SUCCESS
                         THEN ESLURM_CAN_NOT_START_IMMEDIATELY ELSE ja.rc
           accepted == /\ ~finished \/ ~IS_JOB_COMPLETING(Deref(jobs, found))
                       /\ job_ptr = NULL
                       /\ error_code \in SubmitAccepted
                       /\ ja.job_ptr # NULL
           \* submit_msg.job_id = job_ptr->job_id after the locks are gone
       IN /\ acc' = [acc EXCEPT ![t] = IF accepted THEN "unlocked" ELSE Access(t)]
          /\ locks' = unlock_slurmctld(locks, t, submit_job_write_lock)
          /\ active_rpc_cnt' = throttle_fini(active_rpc_cnt, "submit_batch_job")
          /\ pc' = Broadcast([pc EXCEPT ![t] = "done"])
          /\ IF finished /\ IS_JOB_COMPLETING(Deref(jobs, found))
             THEN /\ out' = [out EXCEPT ![t] =
                                held_io(send_rc(@, ESLURM_DUPLICATE_JOB_ID), {HeldResponse})]
                  /\ UNCHANGED <<jobs, loc>>
             ELSE IF job_ptr # NULL /\ Deref(jobs, job_ptr).user_id # m.uid
             THEN /\ out' = [out EXCEPT ![t] =
                                held_io(send_rc(@, ESLURM_USER_ID_MISSING), {HeldResponse})]
                  /\ UNCHANGED <<jobs, loc>>
             ELSE IF job_ptr # NULL /\ Deref(jobs, job_ptr).prolog_running
             THEN /\ out' = [out EXCEPT ![t] =
                                held_io(send_rc(@, EAGAIN), {HeldResponse})]
                  /\ UNCHANGED <<jobs, loc>>
             ELSE IF job_ptr # NULL
             THEN /\ jobs' = ls.jobs
                  /\ loc' = [loc EXCEPT ![t].error_code = ls.rc,
                                        ![t].job_ptr = job_ptr]
                  /\ out' = [out EXCEPT ![t] =
                                IF ls.rc # SLURM_SUCCESS THEN send_rc(@, ls.rc)
                                ELSE held_io(submit_response(@, m.job_id, ls.rc),
                                             {agent_queue_request})]
             ELSE /\ jobs' = ja.jobs
                  /\ loc' = [loc EXCEPT ![t].error_code = error_code,
                                        ![t].job_ptr = ja.job_ptr,
                                        ![t].job_id = ja.job_ptr]
                  /\ out' = [out EXCEPT ![t] =
                                IF error_code \notin SubmitAccepted
                                THEN send_rc(@, error_code)
                                ELSE IF ja.job_ptr = NULL
                                THEN [@ EXCEPT !.kind = "fatal"]
                                ELSE [submit_response(@, ja.job_ptr, error_code)
                                         EXCEPT !.node_save = TRUE, !.kick = TRUE]]
    /\ UNCHANGED <<msg, sync, nrpc, nodes, conf, defer_sched, diag,
                   rvars, avars>>

(***************************************************************************)
(* _slurm_rpc_job_ready and _is_prolog_finished                            *)
(***************************************************************************)
ready_job_read_lock == <<NO_LOCK, READ_LOCK, NO_LOCK, NO_LOCK>>

\* job_node_ready(job_id, &ready)
job_node_ready(js, job_id) ==
    IF find_job_record(js, job_id) = NULL
    THEN ESLURM_INVALID_JOB_ID ELSE SLURM_SUCCESS

JobReady(t) ==
    /\ pc[t] = "dispatch"
    /\ msg[t].msg_type = REQUEST_JOB_READY
    /\ sync' = [sync EXCEPT ![t] =
                   lock_slurmctld("", ready_job_read_lock, "ready_locked")]
    /\ pc' = [pc EXCEPT ![t] = "lock"]
    /\ UNCHANGED <<msg, loc, out, acc, nrpc, svars, dvars, rvars, avars>>

JobReady_Locked(t) ==
    /\ pc[t] = "ready_locked"
    /\ LET error_code == job_node_ready(jobs, msg[t].job_id)
       IN /\ acc' = [acc EXCEPT ![t] = Access(t)]
          /\ locks' = unlock_slurmctld(locks, t, ready_job_read_lock)
          /\ loc' = [loc EXCEPT ![t].error_code = error_code]
          /\ IF error_code # SLURM_SUCCESS
             THEN /\ out' = [out EXCEPT ![t] = send_rc(@, error_code)]
                  /\ pc' = [pc EXCEPT ![t] = "done"]
                  /\ UNCHANGED sync
             ELSE /\ sync' = [sync EXCEPT ![t] =
                                 lock_slurmctld("", ready_job_read_lock, "prolog_locked")]
                  /\ pc' = [pc EXCEPT ![t] = "lock"]
                  /\ UNCHANGED out
    /\ UNCHANGED <<msg, nrpc, active_rpc_cnt, dvars, rvars, avars>>

IsPrologFinished_Locked(t) ==
    /\ pc[t] = "prolog_locked"
    /\ LET job_ptr == find_job_record(jobs, msg[t].job_id)
           is_running == job_ptr # NULL /\ ~Deref(jobs, job_ptr).prolog_running
       IN /\ acc' = [acc EXCEPT ![t] = Access(t)]
          /\ locks' = unlock_slurmctld(locks, t, ready_job_read_lock)
          /\ out' = [out EXCEPT ![t].kind =
                        IF is_running THEN "RESPONSE_JOB_READY"
                        ELSE "RESPONSE_PROLOG_EXECUTING"]
          /\ pc' = [pc EXCEPT ![t] = "done"]
    /\ UNCHANGED <<msg, loc, sync, nrpc, active_rpc_cnt, dvars, rvars, avars>>

(***************************************************************************)
(* _slurm_rpc_dump_stats and _clear_rpc_stats                              *)
(***************************************************************************)
STAT_COMMAND_RESET == "STAT_COMMAND_RESET"
STAT_COMMAND_GET == "STAT_COMMAND_GET"

\* _clear_rpc_stats: every slot of a table is zeroed under rpc_mutex
clear_rpc_stats(tab) == [i \in DOMAIN tab |-> [id |-> 0, cnt |-> 0, time |-> 0]]

\* reset_stats(1)
reset_stats(d) == [jobs_failed |-> 0, jobs_completed |-> 0, jobs_canceled |-> 0]

\* As DumpStats, without the test of the caller.
DumpStats_NoCheck(t) ==
    /\ pc[t] = "dispatch"
    /\ msg[t].msg_type = REQUEST_STATS_INFO
    /\ pc' = [pc EXCEPT ![t] = "done"]
    /\ out' = [out EXCEPT ![t].kind = "RESPONSE_STATS_INFO"]
    /\ IF msg[t].command_id = STAT_COMMAND_RESET
       THEN /\ diag' = reset_stats(diag)
            /\ rpc_type' = clear_rpc_stats(rpc_type)
            /\ rpc_user' = clear_rpc_stats(rpc_user)
       ELSE UNCHANGED <<diag, rvars>>
    /\ UNCHANGED <<msg, loc, sync, acc, nrpc, svars, jobs, nodes,
                   conf, defer_sched, avars>>

\* The access-denied return sends no reply.
DumpStats_SilentDeny(t) ==
    /\ pc[t] = "dispatch"
    /\ msg[t].msg_type = REQUEST_STATS_INFO
    /\ pc' = [pc EXCEPT ![t] = "done"]
    /\ IF msg[t].command_id = STAT_COMMAND_RESET /\ ~validate_slurm_user(msg[t].uid)
       THEN UNCHANGED <<out, diag, rvars>>
       ELSE /\ out' = [out EXCEPT ![t].kind = "RESPONSE_STATS_INFO"]
            /\ IF msg[t].command_id = STAT_COMMAND_RESET
               THEN /\ diag' = reset_stats(diag)
                    /\ rpc_type' = clear_rpc_stats(rpc_type)
                    /\ rpc_user' = clear_rpc_stats(rpc_user)
               ELSE UNCHANGED <<diag, rvars>>
    /\ UNCHANGED <<msg, loc, sync, acc, nrpc, svars, jobs, nodes,
                   conf, defer_sched, avars>>

DumpStats(t) ==
    /\ pc[t] = "dispatch"
    /\ msg[t].msg_type = REQUEST_STATS_INFO
    /\ pc' = [pc EXCEPT ![t] = "done"]
    /\ IF msg[t].command_id = STAT_COMMAND_RESET /\ ~validate_slurm_user(msg[t].uid)
       THEN /\ out' = [out EXCEPT ![t] = send_rc(@, ESLURM_ACCESS_DENIED)]
            /\ UNCHANGED <<diag, rvars>>
       ELSE /\ out' = [out EXCEPT ![t].kind = "RESPONSE_STATS_INFO"]
            /\ IF msg[t].command_id = STAT_COMMAND_RESET
               THEN /\ diag' = reset_stats(diag)
                    /\ rpc_type' = clear_rpc_stats(rpc_type)
                    /\ rpc_user' = clear_rpc_stats(rpc_user)
               ELSE UNCHANGED <<diag, rvars>>
    /\ UNCHANGED <<msg, loc, sync, acc, nrpc, svars, jobs, nodes,
                   conf, defer_sched, avars>>

(***************************************************************************)
(* Administrative operations of the node, partition and reservation        *)
(* managers and of the configuration reader.                               *)
(***************************************************************************)
PartNames == {"p1", "p2"}
ResvNames == {"r1"}

PartsNamed(ps, name) == {p \in ps : p.name = name}

\* update_node(update_node_msg): sets or clears Drain on the named node
update_node(ns, m) ==
    IF m.node_names \notin DOMAIN ns
    THEN [rc |-> ESLURM_INVALID_NODE_NAME, nodes |-> ns]
    ELSE [rc |-> SLURM_SUCCESS,
          nodes |-> [ns EXCEPT ![m.node_names] =
                        IF m.node_state = "NODE_STATE_DRAIN"
                        THEN [drain |-> TRUE, reason |-> "admin"]
                        ELSE [drain |-> FALSE, reason |-> ""]]]

\* update_part(part_desc, create_flag)
update_part(ps, m, create_flag) ==
    LET rec == [name |-> m.name, state_up |-> m.state_up]
    IN IF create_flag = (PartsNamed(ps, m.name) # {})
       THEN [rc |-> ESLURM_INVALID_PARTITION_NAME, parts |-> ps]
       ELSE [rc |-> SLURM_SUCCESS,
             parts |-> (ps \ PartsNamed(ps, m.name)) \cup {rec}]

\* delete_partition(part_desc_ptr)
delete_partition(ps, m) ==
    IF PartsNamed(ps, m.name) = {}
    THEN [rc |-> ESLURM_INVALID_PARTITION_NAME, parts |-> ps]
    ELSE [rc |-> SLURM_SUCCESS, parts |-> ps \ PartsNamed(ps, m.name)]

\* A reservation record: its name and whether it is a maintenance one.
ResvsNamed(rs, name) == {r \in rs : r.name = name}

\* create_resv(resv_desc_ptr)
create_resv(rs, m) ==
    IF ResvsNamed(rs, m.name) # {}
    THEN [rc |-> ESLURM_RESERVATION_INVALID, resvs |-> rs]
    ELSE [rc |-> SLURM_SUCCESS,
          resvs |-> rs \cup {[name |-> m.name, maint |-> m.maint]}]

\* update_resv(resv_desc_ptr)
update_resv(rs, m) ==
    IF ResvsNamed(rs, m.name) = {}
    THEN [rc |-> ESLURM_RESERVATION_INVALID, resvs |-> rs]
    ELSE [rc |-> SLURM_SUCCESS,
          resvs |-> (rs \ ResvsNamed(rs, m.name)) \cup
                    {[name |-> m.name, maint |-> m.maint]}]

\* delete_resv(resv_desc_ptr)
delete_resv(rs, m) ==
    IF ResvsNamed(rs, m.name) = {}
    THEN [rc |-> ESLURM_RESERVATION_INVALID, resvs |-> rs]
    ELSE [rc |-> SLURM_SUCCESS, resvs |-> rs \ ResvsNamed(rs, m.name)]

\* read_slurm_conf(1, true): ok tells whether the file could be read;
\* defer is the new setting of SchedulerParameters=defer.
read_slurm_conf(cf, ok, defer) ==
    IF ok
    THEN [rc |-> SLURM_SUCCESS, conf |-> [cf EXCEPT !.last_update = 2, !.defer = defer]]
    ELSE [rc |-> EINVAL, conf |-> cf]

(***************************************************************************)
(* _slurm_rpc_reconfigure_controller                                       *)
(***************************************************************************)
config_write_lock == <<WRITE_LOCK, WRITE_LOCK, WRITE_LOCK, WRITE_LOCK>>

ReconfigureController(t) ==
    /\ pc[t] = "dispatch"
    /\ msg[t].msg_type = REQUEST_RECONFIGURE
    /\ LET denied == IF validate_super_user(msg[t].uid)
                     THEN SLURM_SUCCESS ELSE ESLURM_USER_ID_MISSING
           error_code == IF in_progress \/ slurmctld_config.shutdown_time # 0
                         THEN EINPROGRESS ELSE denied
       IN /\ loc' = [loc EXCEPT ![t].error_code = error_code]
          /\ IF error_code = SLURM_SUCCESS
             THEN /\ sync' = [sync EXCEPT ![t] =
                                 lock_slurmctld("", config_write_lock, "reconf_locked")]
                  /\ pc' = [pc EXCEPT ![t] = "lock"]
                  /\ UNCHANGED out
             ELSE /\ out' = [out EXCEPT ![t] = send_rc(@, error_code)]
                  /\ pc' = [pc EXCEPT ![t] = "done"]
                  /\ UNCHANGED sync
    /\ UNCHANGED <<msg, acc, nrpc, svars, dvars, rvars, avars>>

\* in_progress = true, with every axis write-locked
ReconfigureController_Locked(t) ==
    /\ pc[t] = "reconf_locked"
    /\ in_progress' = TRUE
    /\ pc' = [pc EXCEPT ![t] = "reconf_read"]
    /\ UNCHANGED <<msg, loc, sync, out, acc, nrpc, svars, dvars, rvars, parts,
                   resvs, slurmctld_config, want_nodes_reboot>>

\* read_slurm_conf and what follows it, to the end of the handler
\* msg_to_slurmd(REQUEST_RECONFIGURE) is sent to the nodes there and then.
ReconfigureDone_SendNow(o, rc) ==
    held_io([send_rc(o, rc) EXCEPT !.kick = (rc = SLURM_SUCCESS),
                                   !.job_save = (rc = SLURM_SUCCESS),
                                   !.node_save = (rc = SLURM_SUCCESS)],
            IF rc = SLURM_SUCCESS THEN {[op |-> "send", to |-> "slurmd"]} ELSE {})

\* What the handler has sent and queued at its end; msg_to_slurmd is
\* called before the locks are given back.
ReconfigureDone(o, rc) ==
    held_io([send_rc(o, rc) EXCEPT !.kick = (rc = SLURM_SUCCESS),
                                   !.job_save = (rc = SLURM_SUCCESS),
                                   !.node_save = (rc = SLURM_SUCCESS)],
            IF rc = SLURM_SUCCESS THEN {agent_queue_request} ELSE {})

ReconfigureController_Read(t) ==
    /\ pc[t] = "reconf_read"
    /\ \E ok \in BOOLEAN, defer \in BOOLEAN :
       LET r == read_slurm_conf(conf, ok, defer)
       IN /\ conf' = r.conf
          /\ in_progress' = FALSE
          /\ locks' = unlock_slurmctld(locks, t, config_write_lock)
          /\ loc' = [loc EXCEPT ![t].error_code = r.rc]
          /\ out' = [out EXCEPT ![t] = ReconfigureDone(@, r.rc)]
          /\ pc' = [pc EXCEPT ![t] = "done"]
    /\ UNCHANGED <<msg, sync, acc, nrpc, active_rpc_cnt, jobs, nodes, defer_sched,
                   diag, rvars, parts, resvs, slurmctld_config,
                   want_nodes_reboot>>

(***************************************************************************)
(* _slurm_rpc_shutdown_controller and                                      *)
(* _slurm_rpc_shutdown_controller_immediate                                *)
(***************************************************************************)
shutdown_node_read_lock == <<NO_LOCK, NO_LOCK, READ_LOCK, NO_LOCK>>

\* "signal clean-up": SIGTERM to the signal thread, or a hard shutdown
\* when there is no such thread.
ShutdownSignalled(sc) ==
    IF sc.thread_id_sig THEN [sc EXCEPT !.sigterm = TRUE]
    ELSE [sc EXCEPT !.shutdown_time = 1]

\* The end of the handler: the reply, then SIGABRT for options 1.
ShutdownReplied(sc, options) ==
    IF options = 1 /\ sc.thread_id_sig THEN [sc EXCEPT !.sigabrt = TRUE] ELSE sc

ShutdownController(t) ==
    /\ pc[t] = "dispatch"
    /\ msg[t].msg_type \in {REQUEST_SHUTDOWN, REQUEST_CONTROL}
    /\ LET m == msg[t]
           error_code == IF validate_super_user(m.uid)
                         THEN SLURM_SUCCESS ELSE ESLURM_USER_ID_MISSING
           ok == error_code = SLURM_SUCCESS
           options == IF ok /\ m.msg_type = REQUEST_SHUTDOWN THEN m.options ELSE 0
           sc == IF ok /\ m.msg_type = REQUEST_CONTROL
                 THEN [slurmctld_config EXCEPT !.resume_backup = TRUE]
                 ELSE slurmctld_config
           idle == ~ok \/ options = 1 \/ sc.shutdown_time # 0
       IN /\ loc' = [loc EXCEPT ![t].error_code = error_code]
          /\ IF ~idle /\ m.msg_type = REQUEST_SHUTDOWN /\ options = 0
             THEN /\ sync' = [sync EXCEPT ![t] =
                                 lock_slurmctld("", shutdown_node_read_lock,
                                                "shutdown_locked")]
                  /\ pc' = [pc EXCEPT ![t] = "lock"]
                  /\ slurmctld_config' = sc
                  /\ UNCHANGED out
             ELSE /\ slurmctld_config' =
                         ShutdownReplied(IF idle THEN sc ELSE ShutdownSignalled(sc),
                                         IF ok THEN options ELSE 0)
                  /\ out' = [out EXCEPT ![t] = send_rc(@, error_code)]
                  /\ pc' = [pc EXCEPT ![t] = "done"]
                  /\ UNCHANGED sync
    /\ UNCHANGED <<msg, acc, nrpc, svars, dvars, rvars, parts, resvs, in_progress, want_nodes_reboot>>

\* msg_to_slurmd(REQUEST_SHUTDOWN) under the node read lock, then the
\* signal and the reply
ShutdownController_Locked(t) ==
    /\ pc[t] = "shutdown_locked"
    /\ locks' = unlock_slurmctld(locks, t, shutdown_node_read_lock)
    /\ slurmctld_config' = ShutdownSignalled(slurmctld_config)
    /\ out' = [out EXCEPT ![t] =
                  held_io(send_rc(@, SLURM_SUCCESS), {agent_queue_request})]
    /\ pc' = [pc EXCEPT ![t] = "done"]
    /\ UNCHANGED <<msg, loc, sync, acc, nrpc, active_rpc_cnt, dvars, rvars, parts,
                   resvs, in_progress, want_nodes_reboot>>

\* "No op: just used to knock loose accept RPC thread"; nothing is sent.
ShutdownControllerImmediate(t) ==
    /\ pc[t] = "dispatch"
    /\ msg[t].msg_type = REQUEST_SHUTDOWN_IMMEDIATE
    /\ loc' = [loc EXCEPT ![t].error_code =
                   IF validate_super_user(msg[t].uid)
                   THEN SLURM_SUCCESS ELSE ESLURM_USER_ID_MISSING]
    /\ pc' = [pc EXCEPT ![t] = "done"]
    /\ UNCHANGED <<msg, sync, out, acc, nrpc, svars, dvars, rvars, avars>>

\* The signal thread of the controller takes the SIGTERM: the shutdown
\* begins.
SignalHand ==
    /\ slurmctld_config.sigterm
    /\ slurmctld_config' = [slurmctld_config EXCEPT !.sigterm = FALSE,
                                                    !.shutdown_time = 1]
    /\ UNCHANGED <<tvars, nrpc, svars, dvars, rvars, parts, resvs, in_progress, want_nodes_reboot>>

(***************************************************************************)
(* _slurm_rpc_update_node, _slurm_rpc_update_partition,                    *)
(* _slurm_rpc_delete_partition, _slurm_rpc_resv_create,                    *)
(* _slurm_rpc_resv_update and _slurm_rpc_resv_delete                       *)
(***************************************************************************)
update_node_write_lock == <<NO_LOCK, WRITE_LOCK, WRITE_LOCK, NO_LOCK>>
part_write_lock == <<READ_LOCK, WRITE_LOCK, READ_LOCK, WRITE_LOCK>>
delete_part_write_lock == <<NO_LOCK, WRITE_LOCK, READ_LOCK, WRITE_LOCK>>
resv_node_write_lock == <<NO_LOCK, NO_LOCK, WRITE_LOCK, READ_LOCK>>
resv_delete_write_lock == <<NO_LOCK, READ_LOCK, WRITE_LOCK, NO_LOCK>>

\* The shape shared by these handlers: the caller is validated; a caller
\* that passes goes on to the lock set, any other is answered with
\* ESLURM_USER_ID_MISSING.  tail tells whether the handler queues its
\* state save and the scheduler whatever the result.
AdminEnter(t, allowed, set, ret, tail) ==
    /\ pc[t] = "dispatch"
    /\ IF allowed
       THEN /\ sync' = [sync EXCEPT ![t] = lock_slurmctld("", set, ret)]
            /\ pc' = [pc EXCEPT ![t] = "lock"]
            /\ UNCHANGED <<loc, out>>
       ELSE /\ loc' = [loc EXCEPT ![t].error_code = ESLURM_USER_ID_MISSING]
            /\ out' = [out EXCEPT ![t] =
                          [send_rc(@, ESLURM_USER_ID_MISSING) EXCEPT
                              !.node_save = tail, !.kick = tail]]
            /\ pc' = [pc EXCEPT ![t] = "done"]
            /\ UNCHANGED sync
    /\ UNCHANGED <<msg, acc, nrpc, svars, dvars, rvars, avars>>

\* The caller is not validated.
UpdateNode_NoCheck(t) ==
    /\ msg[t].msg_type = REQUEST_UPDATE_NODE
    /\ AdminEnter(t, TRUE, update_node_write_lock, "update_node_locked", TRUE)

UpdateNode(t) ==
    /\ msg[t].msg_type = REQUEST_UPDATE_NODE
    /\ AdminEnter(t, validate_super_user(msg[t].uid), update_node_write_lock,
                  "update_node_locked", TRUE)

\* schedule_node_save, queue_job_scheduler and trigger_reconfig are called
\* whatever the result.
UpdateNode_Locked(t) ==
    /\ pc[t] = "update_node_locked"
    /\ LET r == update_node(nodes, msg[t])
       IN /\ nodes' = r.nodes
          /\ locks' = unlock_slurmctld(locks, t, update_node_write_lock)
          /\ loc' = [loc EXCEPT ![t].error_code = r.rc]
          /\ out' = [out EXCEPT ![t] =
                        [send_rc(@, r.rc) EXCEPT !.node_save = TRUE, !.kick = TRUE]]
          /\ pc' = [pc EXCEPT ![t] = "done"]
    /\ UNCHANGED <<msg, sync, acc, nrpc, active_rpc_cnt, jobs, conf, defer_sched,
                   diag, rvars, avars>>

UpdatePartition(t) ==
    /\ msg[t].msg_type \in {REQUEST_CREATE_PARTITION, REQUEST_UPDATE_PARTITION}
    /\ AdminEnter(t, validate_super_user(msg[t].uid), part_write_lock,
                  "update_part_locked", FALSE)

UpdatePartition_Locked(t) ==
    /\ pc[t] = "update_part_locked"
    /\ LET r == update_part(parts, msg[t],
                            msg[t].msg_type = REQUEST_CREATE_PARTITION)
       IN /\ parts' = r.parts
          /\ locks' = unlock_slurmctld(locks, t, part_write_lock)
          /\ loc' = [loc EXCEPT ![t].error_code = r.rc]
          /\ out' = [out EXCEPT ![t] =
                        [send_rc(@, r.rc) EXCEPT !.kick = (r.rc = SLURM_SUCCESS)]]
          /\ pc' = [pc EXCEPT ![t] = "done"]
    /\ UNCHANGED <<msg, sync, acc, nrpc, active_rpc_cnt, dvars, rvars, resvs,
                   slurmctld_config, in_progress, want_nodes_reboot>>

DeletePartition(t) ==
    /\ msg[t].msg_type = REQUEST_DELETE_PARTITION
    /\ AdminEnter(t, validate_super_user(msg[t].uid), delete_part_write_lock,
                  "delete_part_locked", FALSE)

DeletePartition_Locked(t) ==
    /\ pc[t] = "delete_part_locked"
    /\ LET r == delete_partition(parts, msg[t])
           ok == r.rc = SLURM_SUCCESS
       IN /\ parts' = r.parts
          /\ locks' = unlock_slurmctld(locks, t, delete_part_write_lock)
          /\ loc' = [loc EXCEPT ![t].error_code = r.rc]
          /\ out' = [out EXCEPT ![t] =
                        [send_rc(@, r.rc) EXCEPT !.kick = ok, !.job_save = ok,
                                                 !.node_save = ok]]
          /\ pc' = [pc EXCEPT ![t] = "done"]
    /\ UNCHANGED <<msg, sync, acc, nrpc, active_rpc_cnt, dvars, rvars, resvs,
                   slurmctld_config, in_progress, want_nodes_reboot>>

\* The lock set of a reservation RPC.
ResvLock(type) ==
    IF type = REQUEST_DELETE_RESERVATION
    THEN resv_delete_write_lock ELSE resv_node_write_lock

ResvRpc(t) ==
    /\ msg[t].msg_type \in {REQUEST_CREATE_RESERVATION, REQUEST_UPDATE_RESERVATION,
                            REQUEST_DELETE_RESERVATION}
    /\ AdminEnter(t, validate_operator(msg[t].uid), ResvLock(msg[t].msg_type),
                  "resv_locked", FALSE)

\* A created reservation is answered with its name, in a
\* RESPONSE_CREATE_RESERVATION.
ResvRpc_Locked(t) ==
    /\ pc[t] = "resv_locked"
    /\ LET type == msg[t].msg_type
           r == IF type = REQUEST_CREATE_RESERVATION THEN create_resv(resvs, msg[t])
                ELSE IF type = REQUEST_UPDATE_RESERVATION
                THEN update_resv(resvs, msg[t])
                ELSE delete_resv(resvs, msg[t])
           ok == r.rc = SLURM_SUCCESS
       IN /\ resvs' = r.resvs
          /\ locks' = unlock_slurmctld(locks, t, ResvLock(type))
          /\ loc' = [loc EXCEPT ![t].error_code = r.rc]
          /\ out' = [out EXCEPT ![t] =
                        IF ok /\ type = REQUEST_CREATE_RESERVATION
                        THEN [@ EXCEPT !.kind = "RESPONSE_CREATE_RESERVATION",
                                       !.val = msg[t].name, !.kick = TRUE]
                        ELSE [send_rc(@, r.rc) EXCEPT !.kick = ok]]
          /\ pc' = [pc EXCEPT ![t] = "done"]
    /\ UNCHANGED <<msg, sync, acc, nrpc, active_rpc_cnt, dvars, rvars, parts,
                   slurmctld_config, in_progress, want_nodes_reboot>>

(***************************************************************************)
(* _slurm_rpc_node_registration, as built without HAVE_FRONT_END, and      *)
(* _slurm_rpc_ping                                                         *)
(***************************************************************************)
reg_job_write_lock == <<READ_LOCK, WRITE_LOCK, WRITE_LOCK, NO_LOCK>>

\* validate_node_specs(reg_msg, protocol_version, &newly_up): a node whose
\* report does not match its configuration is drained.  The jobs the node
\* reports are those the controller has for it, so validate_jobs_on_node
\* finds nothing to do.
validate_node_specs(ns, m) ==
    IF m.node_name \notin DOMAIN ns
    THEN [rc |-> ESLURM_INVALID_NODE_NAME, nodes |-> ns]
    ELSE IF ~m.config_ok
    THEN [rc |-> EINVAL,
          nodes |-> [ns EXCEPT ![m.node_name] =
                        [drain |-> TRUE, reason |-> "Low socket*core*thread count"]]]
    ELSE [rc |-> SLURM_SUCCESS, nodes |-> ns]

\* The caller is not validated.
NodeRegistration_NoCheck(t) ==
    /\ msg[t].msg_type = MESSAGE_NODE_REGISTRATION_STATUS
    /\ AdminEnter(t, TRUE, reg_job_write_lock, "reg_locked", FALSE)

NodeRegistration(t) ==
    /\ msg[t].msg_type = MESSAGE_NODE_REGISTRATION_STATUS
    /\ AdminEnter(t, validate_slurm_user(msg[t].uid), reg_job_write_lock,
                  "reg_locked", FALSE)

\* newly_up is the flag validate_node_specs sets for a node that is back.
NodeRegistration_Locked(t) ==
    /\ pc[t] = "reg_locked"
    /\ \E newly_up \in BOOLEAN :
       LET r == validate_node_specs(nodes, msg[t])
       IN /\ nodes' = r.nodes
          /\ locks' = unlock_slurmctld(locks, t, reg_job_write_lock)
          /\ loc' = [loc EXCEPT ![t].error_code = r.rc]
          /\ out' = [out EXCEPT ![t] =
                        [send_rc(@, r.rc) EXCEPT
                            !.kick = newly_up /\ r.rc = SLURM_SUCCESS]]
          /\ pc' = [pc EXCEPT ![t] = "done"]
    /\ UNCHANGED <<msg, sync, acc, nrpc, active_rpc_cnt, jobs, conf, defer_sched,
                   diag, rvars, avars>>

\* "We could authenticate here, if desired"
Ping(t) ==
    /\ pc[t] = "dispatch"
    /\ msg[t].msg_type = REQUEST_PING
    /\ out' = [out EXCEPT ![t] = send_rc(@, SLURM_SUCCESS)]
    /\ pc' = [pc EXCEPT ![t] = "done"]
    /\ UNCHANGED <<msg, loc, sync, acc, nrpc, svars, dvars, rvars, avars>>

(***************************************************************************)
(* _slurm_rpc_complete_prolog and _slurm_rpc_job_step_create, as built     *)
(* without HAVE_FRONT_END                                                  *)
(***************************************************************************)
prolog_job_write_lock == <<NO_LOCK, WRITE_LOCK, NO_LOCK, NO_LOCK>>

\* prolog_complete(job_id, prolog_return_code): the prolog of the job is
\* done, its steps may start.  The job waits for one prolog.
prolog_complete(js, job_id, prolog_rc) ==
    IF find_job_record(js, job_id) = NULL
    THEN [rc |-> ESLURM_INVALID_JOB_ID, jobs |-> js]
    ELSE LET j == Deref(js, job_id)
         IN IF IS_JOB_COMPLETING(j)
            THEN [rc |-> SLURM_SUCCESS, jobs |-> js]
            ELSE [rc |-> SLURM_SUCCESS,
                  jobs |-> (js \ {j}) \cup {[j EXCEPT !.prolog_running = FALSE]}]

\* The handler looks at no credential.
CompleteProlog(t) ==
    /\ pc[t] = "dispatch"
    /\ msg[t].msg_type = REQUEST_COMPLETE_PROLOG
    /\ sync' = [sync EXCEPT ![t] =
                   lock_slurmctld("", prolog_job_write_lock, "prolog_locked")]
    /\ pc' = [pc EXCEPT ![t] = "lock"]
    /\ UNCHANGED <<msg, loc, out, acc, nrpc, svars, dvars, rvars, avars>>

CompleteProlog_Locked(t) ==
    /\ pc[t] = "prolog_locked"
    /\ LET r == prolog_complete(jobs, msg[t].job_id, msg[t].prolog_rc)
       IN /\ jobs' = r.jobs
          /\ locks' = unlock_slurmctld(locks, t, prolog_job_write_lock)
          /\ loc' = [loc EXCEPT ![t].error_code = r.rc]
          /\ out' = [out EXCEPT ![t] = send_rc(@, r.rc)]
          /\ pc' = [pc EXCEPT ![t] = "done"]
    /\ UNCHANGED <<msg, sync, acc, nrpc, active_rpc_cnt, nodes, conf,
                   defer_sched, diag, rvars, avars>>

step_create_write_lock == <<NO_LOCK, WRITE_LOCK, READ_LOCK, NO_LOCK>>

\* step_create(req_step_msg, &step_rec, false) of a step request: the job
\* must belong to the user the step is to run as, and its prolog be done.
step_create_req(js, req) ==
    IF find_job_record(js, req.job_id) = NULL
    THEN [rc |-> ESLURM_INVALID_JOB_ID, jobs |-> js, step_id |-> 0]
    ELSE IF Deref(js, req.job_id).user_id # req.user_id
    THEN [rc |-> ESLURM_ACCESS_DENIED, jobs |-> js, step_id |-> 0]
    ELSE IF Deref(js, req.job_id).prolog_running
    THEN [rc |-> ESLURM_PROLOG_RUNNING, jobs |-> js, step_id |-> 0]
    ELSE step_create(js, req.job_id)

JobStepCreate(t) ==
    /\ pc[t] = "dispatch"
    /\ msg[t].msg_type = REQUEST_JOB_STEP_CREATE
    /\ IF msg[t].uid # 0 /\ msg[t].uid # msg[t].user_id
       THEN /\ out' = [out EXCEPT ![t] = send_rc(@, ESLURM_USER_ID_MISSING)]
            /\ pc' = [pc EXCEPT ![t] = "done"]
            /\ UNCHANGED <<loc, sync>>
       ELSE /\ sync' = [sync EXCEPT ![t] =
                           lock_slurmctld("job_step_create", step_create_write_lock,
                                          "step_create_locked")]
            /\ pc' = [pc EXCEPT ![t] = "throttle"]
            /\ UNCHANGED <<loc, out>>
    /\ UNCHANGED <<msg, acc, nrpc, svars, dvars, rvars, avars>>

\* cred_ok is the result of slurm_cred_create in _make_step_cred; the step
\* record stays when it fails.
JobStepCreate_Locked(t) ==
    /\ pc[t] = "step_create_locked"
    /\ \E cred_ok \in BOOLEAN :
       LET sc == step_create_req(jobs, msg[t])
           error_code == IF sc.rc = SLURM_SUCCESS /\ ~cred_ok
                         THEN ESLURM_INVALID_JOB_CREDENTIAL ELSE sc.rc
       IN /\ jobs' = sc.jobs
          /\ locks' = unlock_slurmctld(locks, t, step_create_write_lock)
          /\ active_rpc_cnt' = throttle_fini(active_rpc_cnt, "job_step_create")
          /\ loc' = [loc EXCEPT ![t].error_code = error_code]
          /\ out' = [out EXCEPT ![t] =
                        IF error_code # SLURM_SUCCESS THEN send_rc(@, error_code)
                        ELSE [@ EXCEPT !.kind = "RESPONSE_JOB_STEP_CREATE",
                                       !.val = sc.step_id, !.job_save = TRUE]]
          /\ pc' = Broadcast([pc EXCEPT ![t] = "done"])
    /\ UNCHANGED <<msg, sync, acc, nrpc, nodes, conf, defer_sched, diag,
                   rvars, avars>>

(***************************************************************************)
(* _slurm_rpc_dump_jobs, _slurm_rpc_dump_nodes, _slurm_rpc_dump_partitions *)
(***************************************************************************)
\* The bits of slurmctld_conf.private_data, kept as a set.
PRIVATE_DATA_JOBS == "PRIVATE_DATA_JOBS"
PRIVATE_DATA_NODES == "PRIVATE_DATA_NODES"
PRIVATE_DATA_PARTITIONS == "PRIVATE_DATA_PARTITIONS"
PrivateData == {PRIVATE_DATA_JOBS, PRIVATE_DATA_NODES, PRIVATE_DATA_PARTITIONS}

\* The times of the last change of a job, a node and a partition record.
last_job_update == 1
last_node_update == 1
last_part_update == 1

\* pack_all_jobs(&dump, &dump_size, show_flags, uid, NO_VAL, version): the
\* jobs the caller may see, by id.
pack_all_jobs(js, cf, uid) ==
    {j.job_id : j \in {k \in js : ~(/\ PRIVATE_DATA_JOBS \in cf.private_data
                                     /\ k.user_id # uid
                                     /\ ~validate_operator(uid))}}

\* pack_all_node(&dump, &dump_size, show_flags, uid, version)
pack_all_node(ns) == DOMAIN ns

\* pack_all_part(&dump, &dump_size, show_flags, uid, version)
pack_all_part(ps) == {q.name : q \in ps}

info_response(o, kind, dump) == [o EXCEPT !.kind = kind, !.val = dump]

\* The job read takes the configuration axis alone.
job_read_lock_ConfigOnly == <<READ_LOCK, NO_LOCK, NO_LOCK, NO_LOCK>>

job_read_lock == <<READ_LOCK, READ_LOCK, NO_LOCK, WRITE_LOCK>>

DumpJobs(t) ==
    /\ pc[t] = "dispatch"
    /\ msg[t].msg_type = REQUEST_JOB_INFO
    /\ sync' = [sync EXCEPT ![t] = lock_slurmctld("", job_read_lock, "dump_jobs")]
    /\ pc' = [pc EXCEPT ![t] = "lock"]
    /\ UNCHANGED <<msg, loc, out, acc, nrpc, svars, dvars, rvars, avars>>

DumpJobs_Locked(t) ==
    /\ pc[t] = "dump_jobs"
    /\ locks' = unlock_slurmctld(locks, t, job_read_lock)
    /\ out' = [out EXCEPT ![t] =
                  IF msg[t].last_update - 1 >= last_job_update
                  THEN send_rc(@, SLURM_NO_CHANGE_IN_DATA)
                  ELSE info_response(@, "RESPONSE_JOB_INFO",
                                     pack_all_jobs(jobs, conf, msg[t].uid))]
    /\ pc' = [pc EXCEPT ![t] = "done"]
    /\ UNCHANGED <<msg, loc, sync, acc, nrpc, active_rpc_cnt, dvars, rvars, avars>>

dump_node_write_lock == <<READ_LOCK, NO_LOCK, WRITE_LOCK, NO_LOCK>>

DumpNodes(t) ==
    /\ pc[t] = "dispatch"
    /\ msg[t].msg_type = REQUEST_NODE_INFO
    /\ sync' = [sync EXCEPT ![t] =
                   lock_slurmctld("", dump_node_write_lock, "dump_nodes")]
    /\ pc' = [pc EXCEPT ![t] = "lock"]
    /\ UNCHANGED <<msg, loc, out, acc, nrpc, svars, dvars, rvars, avars>>

\* PRIVATE_DATA_NODES is not looked at.
DumpNodes_NoPrivate(t) ==
    /\ pc[t] = "dump_nodes"
    /\ locks' = unlock_slurmctld(locks, t, dump_node_write_lock)
    /\ out' = [out EXCEPT ![t] =
                  IF msg[t].last_update - 1 >= last_node_update
                  THEN send_rc(@, SLURM_NO_CHANGE_IN_DATA)
                  ELSE info_response(@, "RESPONSE_NODE_INFO", pack_all_node(nodes))]
    /\ pc' = [pc EXCEPT ![t] = "done"]
    /\ UNCHANGED <<msg, loc, sync, acc, nrpc, active_rpc_cnt, dvars, rvars, avars>>

DumpNodes_Locked(t) ==
    /\ pc[t] = "dump_nodes"
    /\ locks' = unlock_slurmctld(locks, t, dump_node_write_lock)
    /\ out' = [out EXCEPT ![t] =
                  IF /\ PRIVATE_DATA_NODES \in conf.private_data
                     /\ ~validate_operator(msg[t].uid)
                  THEN send_rc(@, ESLURM_ACCESS_DENIED)
                  ELSE IF msg[t].last_update - 1 >= last_node_update
                  THEN send_rc(@, SLURM_NO_CHANGE_IN_DATA)
                  ELSE info_response(@, "RESPONSE_NODE_INFO", pack_all_node(nodes))]
    /\ pc' = [pc EXCEPT ![t] = "done"]
    /\ UNCHANGED <<msg, loc, sync, acc, nrpc, active_rpc_cnt, dvars, rvars, avars>>

part_read_lock == <<READ_LOCK, NO_LOCK, NO_LOCK, READ_LOCK>>

DumpPartitions(t) ==
    /\ pc[t] = "dispatch"
    /\ msg[t].msg_type = REQUEST_PARTITION_INFO
    /\ sync' = [sync EXCEPT ![t] = lock_slurmctld("", part_read_lock, "dump_parts")]
    /\ pc' = [pc EXCEPT ![t] = "lock"]
    /\ UNCHANGED <<msg, loc, out, acc, nrpc, svars, dvars, rvars, avars>>

DumpPartitions_Locked(t) ==
    /\ pc[t] = "dump_parts"
    /\ locks' = unlock_slurmctld(locks, t, part_read_lock)
    /\ out' = [out EXCEPT ![t] =
                  IF /\ PRIVATE_DATA_PARTITIONS \in conf.private_data
                     /\ ~validate_operator(msg[t].uid)
                  THEN send_rc(@, ESLURM_ACCESS_DENIED)
                  ELSE IF msg[t].last_update - 1 >= last_part_update
                  THEN send_rc(@, SLURM_NO_CHANGE_IN_DATA)
                  ELSE info_response(@, "RESPONSE_PARTITION_INFO",
                                     pack_all_part(parts))]
    /\ pc' = [pc EXCEPT ![t] = "done"]
    /\ UNCHANGED <<msg, loc, sync, acc, nrpc, active_rpc_cnt, dvars, rvars, avars>>

(***************************************************************************)
(* _slurm_rpc_kill_job2                                                    *)
(***************************************************************************)
kill_job2_lock == <<READ_LOCK, WRITE_LOCK, WRITE_LOCK, NO_LOCK>>

\* job_str_signal(sjob_id, signal, flags, uid, 0) for SIGKILL: the job is
\* cancelled; the requests that end it on its nodes go to the agent queue.
job_str_signal(js, job_id, uid) ==
    IF find_job_record(js, job_id) = NULL
    THEN [rc |-> ESLURM_INVALID_JOB_ID, jobs |-> js]
    ELSE LET j == Deref(js, job_id)
         IN IF IS_JOB_FINISHED(j)
            THEN [rc |-> ESLURM_ALREADY_DONE, jobs |-> js]
            ELSE IF j.user_id # uid /\ ~validate_operator(uid)
            THEN [rc |-> ESLURM_ACCESS_DENIED, jobs |-> js]
            ELSE [rc |-> SLURM_SUCCESS,
                  jobs |-> (js \ {j}) \cup
                           {[j EXCEPT !.job_state = "JOB_CANCELLED",
                                      !.completing = j.nodes, !.steps = {}]}]

KillJob2(t) ==
    /\ pc[t] = "dispatch"
    /\ msg[t].msg_type = REQUEST_KILL_JOB
    /\ sync' = [sync EXCEPT ![t] = lock_slurmctld("", kill_job2_lock, "kill_job2")]
    /\ pc' = [pc EXCEPT ![t] = "lock"]
    /\ UNCHANGED <<msg, loc, out, acc, nrpc, svars, dvars, rvars, avars>>

\* slurm_send_rc_msg(msg, cc) comes before unlock_slurmctld(lock).
KillJob2_Locked(t) ==
    /\ pc[t] = "kill_job2"
    /\ LET r == job_str_signal(jobs, msg[t].job_id, msg[t].uid)
       IN /\ jobs' = r.jobs
          /\ out' = [out EXCEPT ![t] =
                        held_io(send_rc(@, r.rc),
                                IF r.rc = SLURM_SUCCESS
                                THEN {HeldResponse, agent_queue_request}
                                ELSE {HeldResponse})]
          /\ locks' = unlock_slurmctld(locks, t, kill_job2_lock)
          /\ pc' = [pc EXCEPT ![t] = "done"]
    /\ UNCHANGED <<msg, loc, sync, acc, nrpc, active_rpc_cnt, nodes, conf,
                   defer_sched, diag, rvars, avars>>

(***************************************************************************)
(* _slurm_rpc_job_step_kill                                                *)
(***************************************************************************)
step_kill_write_lock == <<READ_LOCK, WRITE_LOCK, WRITE_LOCK, NO_LOCK>>

\* job_signal(job_id, signal, flags, uid, false): SIGKILL cancels the job,
\* any other signal is passed on to its nodes and leaves the record alone.
job_signal(js, job_id, signal, uid) ==
    IF signal = "SIGKILL"
    THEN job_str_signal(js, job_id, uid)
    ELSE [job_str_signal(js, job_id, uid) EXCEPT !.jobs = js]

\* job_step_signal(job_id, step_id, signal, uid): the signal goes to the
\* nodes of the step; the records stay as they are.
job_step_signal(js, job_id, step_id, uid) ==
    IF find_job_record(js, job_id) = NULL
    THEN ESLURM_INVALID_JOB_ID
    ELSE LET j == Deref(js, job_id)
         IN IF IS_JOB_FINISHED(j)
            THEN ESLURM_ALREADY_DONE
            ELSE IF j.user_id # uid /\ ~validate_operator(uid)
            THEN ESLURM_ACCESS_DENIED
            ELSE IF FindStep(j, step_id) = {}
            THEN ESLURM_INVALID_JOB_ID
            ELSE SLURM_SUCCESS

JobStepKill(t) ==
    /\ pc[t] = "dispatch"
    /\ msg[t].msg_type = REQUEST_CANCEL_JOB_STEP
    /\ sync' = [sync EXCEPT ![t] =
                   lock_slurmctld("job_step_kill", step_kill_write_lock,
                                  "step_kill_locked")]
    /\ pc' = [pc EXCEPT ![t] = "throttle"]
    /\ UNCHANGED <<msg, loc, out, acc, nrpc, svars, dvars, rvars, avars>>

\* From find_job_record to the reply; the count of a cancelled job comes
\* after unlock_slurmctld and _throttle_fini.
JobStepKill_Locked(t) ==
    /\ pc[t] = "step_kill_locked"
    /\ LET m == msg[t]
           whole == m.job_step_id = SLURM_BATCH_SCRIPT
           r == job_signal(jobs, m.job_id, m.signal, m.uid)
           error_code == IF whole THEN r.rc
                         ELSE job_step_signal(jobs, m.job_id, m.job_step_id, m.uid)
       IN /\ jobs' = IF whole THEN r.jobs ELSE jobs
          /\ locks' = unlock_slurmctld(locks, t, step_kill_write_lock)
          /\ active_rpc_cnt' = throttle_fini(active_rpc_cnt, "job_step_kill")
          /\ loc' = [loc EXCEPT ![t].error_code = error_code]
          /\ IF error_code # SLURM_SUCCESS
             THEN /\ out' = [out EXCEPT ![t] = send_rc(@, error_code)]
                  /\ pc' = Broadcast([pc EXCEPT ![t] = "done"])
             ELSE IF whole /\ m.signal = "SIGKILL"
             THEN /\ pc' = Broadcast([pc EXCEPT ![t] = "kill_count"])
                  /\ UNCHANGED out
             ELSE /\ out' = [out EXCEPT ![t] =
                                [send_rc(@, SLURM_SUCCESS) EXCEPT !.job_save = TRUE]]
                  /\ pc' = Broadcast([pc EXCEPT ![t] = "done"])
    /\ UNCHANGED <<msg, sync, acc, nrpc, nodes, conf, defer_sched, diag, rvars,
                   avars>>

\* slurmctld_diag_stats.jobs_canceled++ is a load and a store of a plain
\* int, with no lock and no mutex held: this is the load.
JobStepKill_Count(t) ==
    /\ pc[t] = "kill_count"
    /\ loc' = [loc EXCEPT ![t].reg = diag.jobs_canceled]
    /\ pc' = [pc EXCEPT ![t] = "kill_store"]
    /\ UNCHANGED <<msg, sync, out, acc, nrpc, svars, dvars, rvars, avars>>

\* The store, then slurm_send_rc_msg(msg, SLURM_SUCCESS) and
\* schedule_job_save().
JobStepKill_Store(t) ==
    /\ pc[t] = "kill_store"
    /\ diag' = [diag EXCEPT !.jobs_canceled = loc[t].reg + 1]
    /\ out' = [out EXCEPT ![t] =
                  [send_rc(@, SLURM_SUCCESS) EXCEPT !.job_save = TRUE]]
    /\ pc' = [pc EXCEPT ![t] = "done"]
    /\ UNCHANGED <<msg, loc, sync, acc, nrpc, svars, jobs, nodes, conf,
                   defer_sched, rvars, avars>>

(***************************************************************************)
(* slurmctld_req: the dispatcher around the handlers, with the RPC         *)
(* telemetry tables it keeps under rpc_mutex.                              *)
(***************************************************************************)
\* The message types slurmctld_req has a case for (those of the model).
KnownTypes == {REQUEST_STATS_INFO, REQUEST_RESOURCE_ALLOCATION,
               REQUEST_SUBMIT_BATCH_JOB, REQUEST_JOB_READY, REQUEST_STEP_COMPLETE,
               REQUEST_COMPLETE_JOB_ALLOCATION, REQUEST_COMPLETE_BATCH_SCRIPT,
               REQUEST_COMPLETE_BATCH_JOB, MESSAGE_EPILOG_COMPLETE}

\* The slots the scan stops at: the first unused one or the one with the id.
TypeSlots(tab, id) == {i \in DOMAIN tab : tab[i].id = 0 \/ tab[i].id = id}

\* As UserSlots, without the test that keeps slot 0 for uid 0.
UserSlots_AnyFree(tab, id) ==
    {i \in DOMAIN tab : tab[i].id = 0 \/ tab[i].id = id}

UserSlots(tab, id) ==
    {i \in DOMAIN tab : (tab[i].id = 0 /\ i # 0) \/ tab[i].id = id}

\* A scan that ends at the last slot that fits, not at the first.
Lowest_Last(slots) ==
    IF slots = {} THEN 0 - 1 ELSE CHOOSE i \in slots : \A k \in slots : i >= k

Lowest(slots) ==
    IF slots = {} THEN 0 - 1 ELSE CHOOSE i \in slots : \A k \in slots : i <= k

\* As Claimed, but a full table gives up its first slot to the new id.
Claimed_Evict(tab, i, id) ==
    IF i >= 0 THEN [tab EXCEPT ![i].id = id]
    ELSE [tab EXCEPT ![0] = [id |-> id, cnt |-> 0, time |-> 0]]

\* The table after the scan has taken slot i for id.
Claimed(tab, i, id) == IF i >= 0 THEN [tab EXCEPT ![i].id = id] ELSE tab

\* The counters of slot i after one more RPC of latency delta.
Counted(tab, i, delta) ==
    IF i >= 0 THEN [tab EXCEPT ![i].cnt = @ + 1, ![i].time = @ + delta] ELSE tab

\* A message arrives on thread t; auth_ok tells whether its credential is
\* valid.  Without it the RPC is dropped before anything is counted.
Receive(t, m, auth_ok) ==
    /\ pc[t] = "idle"
    /\ nrpc < MaxRpc
    /\ nrpc' = nrpc + 1
    /\ msg' = [msg EXCEPT ![t] = m]
    /\ out' = [out EXCEPT ![t] = NoOut]
    /\ acc' = [acc EXCEPT ![t] = "none"]
    /\ LET ti == Lowest(TypeSlots(rpc_type, m.msg_type))
           ui == Lowest(UserSlots(rpc_user, m.uid))
       IN IF auth_ok
          THEN /\ rpc_type' = Claimed(rpc_type, ti, m.msg_type)
               /\ rpc_user' = Claimed(rpc_user, ui, m.uid)
               /\ loc' = [loc EXCEPT ![t] = [NoLoc EXCEPT !.rpc_type_index = ti,
                                                          !.rpc_user_index = ui]]
               /\ pc' = [pc EXCEPT ![t] = "dispatch"]
          ELSE /\ loc' = [loc EXCEPT ![t] = [NoLoc EXCEPT !.auth_ok = FALSE]]
               /\ pc' = [pc EXCEPT ![t] = "finished"]
               /\ UNCHANGED rvars
    /\ UNCHANGED <<sync, svars, dvars, avars>>

\* The default case of the switch.
InvalidRpc(t) ==
    /\ pc[t] = "dispatch"
    /\ msg[t].msg_type \notin KnownTypes
    /\ out' = [out EXCEPT ![t] = send_rc(@, EINVAL)]
    /\ pc' = [pc EXCEPT ![t] = "done"]
    /\ UNCHANGED <<msg, loc, sync, acc, nrpc, svars, dvars, rvars, avars>>

\* Back from the handler: the counters of the slots found on arrival go
\* up, delta being DELTA_TIMER.
ReqEnd(t, delta) ==
    /\ pc[t] = "done"
    /\ rpc_type' = Counted(rpc_type, loc[t].rpc_type_index, delta)
    /\ rpc_user' = Counted(rpc_user, loc[t].rpc_user_index, delta)
    /\ pc' = [pc EXCEPT ![t] = "finished"]
    /\ UNCHANGED <<msg, loc, sync, out, acc, nrpc, svars, dvars, avars>>

\* slurmctld_req has returned; the thread is free for the next message.
Finish(t) ==
    /\ pc[t] = "finished"
    /\ pc' = [pc EXCEPT ![t] = "idle"]
    /\ msg' = [msg EXCEPT ![t] = NoMsg]
    /\ loc' = [loc EXCEPT ![t] = NoLoc]
    /\ out' = [out EXCEPT ![t] = NoOut]
    /\ sync' = [sync EXCEPT ![t] = NoSync]
    /\ acc' = [acc EXCEPT ![t] = "none"]
    /\ UNCHANGED <<nrpc, svars, dvars, rvars, avars>>

(***************************************************************************)
(* Initial states.                                                         *)
(***************************************************************************)
InitThreads ==
    /\ pc = [t \in Threads |-> "idle"]
    /\ msg = [t \in Threads |-> NoMsg]
    /\ loc = [t \in Threads |-> NoLoc]
    /\ sync = [t \in Threads |-> NoSync]
    /\ out = [t \in Threads |-> NoOut]
    /\ acc = [t \in Threads |-> "none"]
    /\ nrpc = 0
    /\ active_rpc_cnt = [h \in Throttled |-> 0]
    /\ locks = [a \in 1..NAxes |-> [w |-> 0, r |-> {}]]

InitStats ==
    /\ rpc_type = [i \in 0..(RpcTypeSize - 1) |-> [id |-> 0, cnt |-> 0, time |-> 0]]
    /\ rpc_user = [i \in 0..(RpcUserSize - 1) |-> [id |-> 0, cnt |-> 0, time |-> 0]]

\* Job 1 of user 2 runs on both nodes, its batch script on n1.
InitStore ==
    /\ jobs = {RunningJob(1, 2, Nodes, "n1")}
    /\ nodes = [n \in Nodes |-> [drain |-> FALSE, reason |-> ""]]
    /\ conf \in [last_update : {1}, defer : BOOLEAN, private_data : {{}}]
    /\ defer_sched = FALSE
    /\ diag = [jobs_failed |-> 0, jobs_completed |-> 0, jobs_canceled |-> 0]

\* Partition p1 is configured and up, there is no reservation, the
\* controller is not shutting down and its signal thread runs.
InitAdmin ==
    /\ parts = {[name |-> "p1", state_up |-> TRUE]}
    /\ resvs = {}
    /\ slurmctld_config = [shutdown_time |-> 0, resume_backup |-> FALSE,
                           thread_id_sig |-> TRUE, sigterm |-> FALSE,
                           sigabrt |-> FALSE]
    /\ in_progress = FALSE
    /\ want_nodes_reboot = FALSE

Init == InitThreads /\ InitStats /\ InitStore /\ InitAdmin

\* Job 1 after its allocation was completed: still Completing on n1, or
\* completed and retained.
CompletedJob(left) ==
    [RunningJob(1, 2, Nodes, "n1") EXCEPT !.job_state = "JOB_COMPLETE",
                                          !.completing = left]

InitStoreAny ==
    /\ jobs \in {{RunningJob(1, 2, Nodes, "n1")}, {CompletedJob({"n1"})},
                 {CompletedJob({})}}
    /\ nodes = [n \in Nodes |-> [drain |-> FALSE, reason |-> ""]]
    /\ conf \in [last_update : {1}, defer : BOOLEAN, private_data : {{}}]
    /\ defer_sched = FALSE
    /\ diag = [jobs_failed |-> 0, jobs_completed |-> 0, jobs_canceled |-> 0]

InitAny == InitThreads /\ InitStats /\ InitStoreAny /\ InitAdmin

(***************************************************************************)
(* Requests.  Each set lists the messages of one type that a client, a     *)
(* slurmd or srun may send.                                                *)
(***************************************************************************)
EpilogMsgs ==
    [msg_type : {MESSAGE_EPILOG_COMPLETE}, uid : {SlurmUser, 2}, job_id : {1},
     node_name : Nodes, return_code : {0}]

CompleteJobMsgs ==
    [msg_type : {REQUEST_COMPLETE_JOB_ALLOCATION}, uid : {2, 5}, job_id : {1, 2},
     job_rc : {0}]

BatchMsgs ==
    [msg_type : {REQUEST_COMPLETE_BATCH_SCRIPT, REQUEST_COMPLETE_BATCH_JOB},
     uid : {SlurmUser, 2}, job_id : {1}, node_name : Nodes,
     slurm_rc : {SLURM_SUCCESS, ESLURM_ALREADY_DONE, ESLURMD_CREDENTIAL_REVOKED,
                 ESLURM_RESERVATION_NOT_USABLE, SLURM_COMMUNICATIONS_SEND_ERROR,
                 ESLURM_USER_ID_MISSING, ESLURMD_UID_NOT_FOUND,
                 ESLURMD_GID_NOT_FOUND, ESLURMD_INVALID_ACCT_FREQ,
                 ESLURMD_PROLOG_FAILED},
     job_rc : {0, 1}]

StepMsgs ==
    {m \in [msg_type : {REQUEST_STEP_COMPLETE}, uid : {SlurmUser}, job_id : {1},
            job_step_id : {0, SLURM_BATCH_SCRIPT}, range_first : {0, 1},
            range_last : {0, 1}, step_rc : {0}] :
        m.range_first <= m.range_last}

AllocMsgs ==
    [msg_type : {REQUEST_RESOURCE_ALLOCATION}, uid : {2}, user_id : {2, 5},
     alloc_node : BOOLEAN, immediate : {0, 1}, valid : BOOLEAN,
     peer_ok : BOOLEAN, job_id : {SLURM_BATCH_SCRIPT}, array_inx : {FALSE}]

SubmitMsgs ==
    [msg_type : {REQUEST_SUBMIT_BATCH_JOB}, uid : {2, 4}, user_id : {2},
     alloc_node : BOOLEAN, immediate : {0, 1}, valid : BOOLEAN,
     peer_ok : {TRUE}, job_id : {SLURM_BATCH_SCRIPT, 1}, array_inx : BOOLEAN]

ReadyMsgs == [msg_type : {REQUEST_JOB_READY}, uid : {2}, job_id : {1, 2}]

StatsMsgs ==
    [msg_type : {REQUEST_STATS_INFO}, uid : {SlurmUser, 2},
     command_id : {STAT_COMMAND_GET, STAT_COMMAND_RESET}]

AllMsgs == EpilogMsgs \cup CompleteJobMsgs \cup BatchMsgs \cup StepMsgs \cup
           AllocMsgs \cup SubmitMsgs \cup ReadyMsgs \cup StatsMsgs

\* The well-formed requests from the users entitled to them, one or two
\* of each type.
GateMsgs ==
    {m \in AllMsgs :
        /\ m.msg_type \in {MESSAGE_EPILOG_COMPLETE, REQUEST_COMPLETE_BATCH_SCRIPT}
               => m.uid = SlurmUser /\ m.node_name = "n1"
        /\ m.msg_type = REQUEST_COMPLETE_BATCH_JOB => FALSE
        /\ m.msg_type = REQUEST_COMPLETE_BATCH_SCRIPT
               => m.slurm_rc = SLURM_SUCCESS /\ m.job_rc = 0
        /\ m.msg_type = REQUEST_COMPLETE_JOB_ALLOCATION => m.uid = 2 /\ m.job_id = 1
        /\ m.msg_type = REQUEST_STEP_COMPLETE
               => m.range_first = 0 /\ m.range_last = 1 /\ m.job_step_id = 0
        /\ m.msg_type \in {REQUEST_RESOURCE_ALLOCATION, REQUEST_SUBMIT_BATCH_JOB}
               => /\ m.uid = m.user_id /\ m.alloc_node /\ m.valid
                  /\ m.peer_ok /\ ~m.array_inx /\ m.immediate = 0
        /\ m.msg_type = REQUEST_JOB_READY => m.job_id = 1
        /\ m.msg_type = REQUEST_STATS_INFO
               => m.uid = SlurmUser /\ m.command_id = STAT_COMMAND_RESET}

(***************************************************************************)
(* The steps of a thread inside a handler.                                 *)
(***************************************************************************)
Handle(t) ==
    \/ ThrottleStart(t)
    \/ LockStep(t)
    \/ EpilogComplete(t)
    \/ EpilogComplete_Locked(t)
    \/ CompleteJobAllocation(t)
    \/ CompleteJobAllocation_Locked(t)
    \/ CompleteBatchScript(t)
    \/ CompleteBatchScript_Locked(t)
    \/ StepComplete(t)
    \/ StepComplete_Locked(t)
    \/ AllocateResources(t)
    \/ AllocateResources_Validate(t)
    \/ AllocateResources_Locked(t)
    \/ KillJobOnMsgFail_Locked(t)
    \/ SubmitBatchJob(t)
    \/ SubmitBatchJob_Validate(t)
    \/ SubmitBatchJob_Locked(t)
    \/ JobReady(t)
    \/ JobReady_Locked(t)
    \/ IsPrologFinished_Locked(t)
    \/ DumpStats(t)

(***************************************************************************)
(* SpecGate: handlers called concurrently on the threads of the pool.      *)
(***************************************************************************)
NextGate ==
    \E t \in Threads :
        \/ \E m \in GateMsgs : Invoke(t, m)
        \/ Handle(t)
        \/ Return(t)

SpecGate == Init /\ [][NextGate]_vars

(***************************************************************************)
(* Spec: one RPC at a time, with every request of AllMsgs, on a store      *)
(* where job 1 runs, is Completing or is completed.                        *)
(***************************************************************************)
\* A handler is called while no other is running.
Call(t) ==
    /\ \A u \in Threads : pc[u] = "idle"
    /\ \E m \in AllMsgs : Invoke(t, m)

Next ==
    \E t \in Threads :
        \/ Call(t)
        \/ Handle(t)
        \/ Return(t)

Spec == InitAny /\ [][Next]_vars

(***************************************************************************)
(* SpecRpc: slurmctld_req called concurrently with the telemetry, for      *)
(* job-ready and statistics requests and for a request of a type that      *)
(* slurmctld_req has no case for.                                          *)
(***************************************************************************)
REQUEST_LAUNCH_TASKS == 6001

LaunchMsgs == [msg_type : {REQUEST_LAUNCH_TASKS}, uid : {2}]

RpcMsgs == {m \in ReadyMsgs : m.job_id = 1} \cup StatsMsgs \cup LaunchMsgs

Deltas == {1, 2}

NextRpc ==
    \E t \in Threads :
        \/ \E m \in RpcMsgs, auth_ok \in BOOLEAN : Receive(t, m, auth_ok)
        \/ LockStep(t)
        \/ JobReady(t)
        \/ JobReady_Locked(t)
        \/ IsPrologFinished_Locked(t)
        \/ DumpStats(t)
        \/ InvalidRpc(t)
        \/ \E delta \in Deltas : ReqEnd(t, delta)
        \/ Finish(t)

SpecRpc == Init /\ [][NextRpc]_vars

\* The same, with root among the callers.
RootMsgs ==
    [msg_type : {REQUEST_STATS_INFO}, uid : {0}, command_id : {STAT_COMMAND_GET}]

NextStat ==
    \/ NextRpc
    \/ \E t \in Threads, m \in RootMsgs : Receive(t, m, TRUE)

SpecStat == Init /\ [][NextStat]_vars

\* _pack_rpc_stats: the number of slots a dump packs, found by a scan
\* from slot first that stops at the first id that is 0.
pack_rpc_count(tab, first) ==
    LET stop == {i \in DOMAIN tab : i >= first /\ tab[i].id = 0}
    IN IF stop = {} THEN Cardinality(DOMAIN tab) ELSE Lowest(stop)

\* The same traffic on a user table with room for two uids besides root.
WideUserSize == 3

InitWide ==
    /\ InitThreads /\ InitStore /\ InitAdmin
    /\ rpc_type = [i \in 0..(RpcTypeSize - 1) |-> [id |-> 0, cnt |-> 0, time |-> 0]]
    /\ rpc_user = [i \in 0..(WideUserSize - 1) |-> [id |-> 0, cnt |-> 0, time |-> 0]]

SpecWide == InitWide /\ [][NextStat]_vars

(***************************************************************************)
(* SpecReq: slurmctld_req with every handler, one RPC at a time, from      *)
(* entitled and other callers.                                             *)
(***************************************************************************)
ReqMsgs ==
    {m \in GateMsgs \cup EpilogMsgs \cup BatchMsgs \cup StatsMsgs :
        /\ m.msg_type \in {MESSAGE_EPILOG_COMPLETE, REQUEST_COMPLETE_BATCH_SCRIPT,
                           REQUEST_COMPLETE_BATCH_JOB}
               => m.node_name = "n1"
        /\ m.msg_type \in {REQUEST_COMPLETE_BATCH_SCRIPT, REQUEST_COMPLETE_BATCH_JOB}
               => m.slurm_rc \in {SLURM_SUCCESS, ESLURMD_PROLOG_FAILED} /\ m.job_rc = 0}
    \cup LaunchMsgs

\* A message arrives while no other is being processed.
Accept(t) ==
    /\ \A u \in Threads : pc[u] = "idle"
    /\ \E m \in ReqMsgs, auth_ok \in BOOLEAN : Receive(t, m, auth_ok)

NextReq ==
    \E t \in Threads :
        \/ Accept(t)
        \/ Handle(t)
        \/ InvalidRpc(t)
        \/ \E delta \in Deltas : ReqEnd(t, delta)
        \/ Finish(t)

SpecReq == Init /\ [][NextReq]_vars

(***************************************************************************)
(* SpecFair: job-complete RPCs that never stop arriving, on threads that   *)
(* the scheduler runs fairly: a thread that can take its next step inside  *)
(* slurmctld_req without interruption does take it.  Arrivals are up to    *)
(* the clients.                                                            *)
(***************************************************************************)
Arrive(t) ==
    /\ pc[t] = "idle"
    /\ \E m \in CompleteJobMsgs : msg' = [msg EXCEPT ![t] = m]
    /\ pc' = [pc EXCEPT ![t] = "dispatch"]
    /\ loc' = [loc EXCEPT ![t] = NoLoc]
    /\ out' = [out EXCEPT ![t] = NoOut]
    /\ acc' = [acc EXCEPT ![t] = "none"]
    /\ UNCHANGED <<sync, nrpc, svars, dvars, rvars, avars>>

ThreadStep(t) ==
    \/ ThrottleStart(t)
    \/ LockStep(t)
    \/ CompleteJobAllocation(t)
    \/ CompleteJobAllocation_Locked(t)
    \/ Return(t)

NextFair == \E t \in Threads : Arrive(t) \/ ThreadStep(t)

Fairness == \A t \in Threads : WF_vars(ThreadStep(t))

SpecFair == Init /\ [][NextFair]_vars /\ Fairness

(***************************************************************************)
(* SpecAdmin: the administrative RPCs called concurrently, from a plain    *)
(* user, an operator and a super-user.                                     *)
(***************************************************************************)
AdminUids == {2, 3, 4}

ReconfigureMsgs == [msg_type : {REQUEST_RECONFIGURE}, uid : AdminUids]

ShutdownMsgs ==
    {m \in [msg_type : {REQUEST_SHUTDOWN, REQUEST_CONTROL}, uid : AdminUids,
            options : {0, 1}] :
        m.msg_type = REQUEST_CONTROL => m.options = 0}
    \cup [msg_type : {REQUEST_SHUTDOWN_IMMEDIATE}, uid : AdminUids]

UpdateNodeMsgs ==
    [msg_type : {REQUEST_UPDATE_NODE}, uid : AdminUids, node_names : {"n1"},
     node_state : {"NODE_STATE_DRAIN", "NODE_RESUME"}]

PartitionMsgs ==
    [msg_type : {REQUEST_CREATE_PARTITION, REQUEST_UPDATE_PARTITION},
     uid : AdminUids, name : PartNames, state_up : {FALSE}]
    \cup [msg_type : {REQUEST_DELETE_PARTITION}, uid : AdminUids, name : {"p1"}]

ResvMsgs ==
    [msg_type : {REQUEST_CREATE_RESERVATION}, uid : AdminUids, name : ResvNames,
     maint : {FALSE}]
    \cup [msg_type : {REQUEST_UPDATE_RESERVATION}, uid : AdminUids,
          name : ResvNames, maint : {TRUE}]
    \cup [msg_type : {REQUEST_DELETE_RESERVATION}, uid : AdminUids,
          name : ResvNames]

AdminMsgs == ReconfigureMsgs \cup ShutdownMsgs \cup UpdateNodeMsgs \cup
             PartitionMsgs \cup ResvMsgs

HandleAdmin(t) ==
    \/ LockStep(t)
    \/ ReconfigureController(t)
    \/ ReconfigureController_Locked(t)
    \/ ReconfigureController_Read(t)
    \/ ShutdownController(t)
    \/ ShutdownController_Locked(t)
    \/ ShutdownControllerImmediate(t)
    \/ UpdateNode(t)
    \/ UpdateNode_Locked(t)
    \/ UpdatePartition(t)
    \/ UpdatePartition_Locked(t)
    \/ DeletePartition(t)
    \/ DeletePartition_Locked(t)
    \/ ResvRpc(t)
    \/ ResvRpc_Locked(t)

NextAdmin ==
    \/ \E t \in Threads :
           \/ \E m \in AdminMsgs : Invoke(t, m)
           \/ HandleAdmin(t)
           \/ Return(t)
    \/ SignalHand

SpecAdmin == Init /\ [][NextAdmin]_vars

(***************************************************************************)
(* _slurm_rpc_reboot_nodes                                                 *)
(***************************************************************************)
REQUEST_REBOOT_NODES == 1015
EACCES == "EACCES"

\* node_state is a base state and a set of flag bits.
NODE_STATE_MAINT == "NODE_STATE_MAINT"
NODE_STATE_CLOUD == "NODE_STATE_CLOUD"
NODE_STATE_POWER_SAVE == "NODE_STATE_POWER_SAVE"

IS_NODE_DOWN(n) == n.base = "NODE_STATE_DOWN"
IS_NODE_FUTURE(n) == n.base = "NODE_STATE_FUTURE"
IS_NODE_CLOUD(n) == NODE_STATE_CLOUD \in n.flags
IS_NODE_POWER_SAVE(n) == NODE_STATE_POWER_SAVE \in n.flags
IS_NODE_MAINT(n) == NODE_STATE_MAINT \in n.flags

reboot_node_write_lock == <<NO_LOCK, NO_LOCK, WRITE_LOCK, NO_LOCK>>

\* reboot_msg == NULL or reboot_msg->node_list == NULL
NoList == "(null)"

\* The names a node list expression stands for.
HostList(list) ==
    CASE list = "n1" -> {"n1"}
      [] list = "n2" -> {"n2"}
      [] list = "n1,n2" -> {"n1", "n2"}
      [] list = "n[1-2]" -> {"n1", "n2"}
      [] list = "n1,n9" -> {"n1", "n9"}
      [] OTHER -> {list}

\* node_name2bitmap(nodelist, false, &bitmap): fails on a name that is
\* no node of the cluster.
node_name2bitmap(ns, list) ==
    IF HostList(list) \subseteq DOMAIN ns
    THEN [rc |-> 0, bitmap |-> HostList(list)]
    ELSE [rc |-> 1, bitmap |-> {}]

\* the bitmap of the request: every node for no list and for "ALL" in
\* any case of the letters
reboot_bitmap(ns, list) ==
    IF list = NoList \/ list \in {"ALL", "all", "All"}
    THEN [rc |-> 0, bitmap |-> DOMAIN ns]
    ELSE node_name2bitmap(ns, list)

\* The loop without the test for a cloud node that is powered down.
reboot_marks_NoCloudTest(ns, bitmap) ==
    {n \in DOMAIN ns : /\ n \in bitmap
                       /\ ~IS_NODE_MAINT(ns[n])
                       /\ ~(IS_NODE_FUTURE(ns[n]) \/ IS_NODE_DOWN(ns[n]))}

\* The body of the loop over the node table: the nodes that get
\* NODE_STATE_MAINT in this call.
reboot_marks(ns, bitmap) ==
    {n \in DOMAIN ns : /\ n \in bitmap
                       /\ ~IS_NODE_MAINT(ns[n])
                       /\ ~(IS_NODE_FUTURE(ns[n]) \/ IS_NODE_DOWN(ns[n]))
                       /\ ~(IS_NODE_CLOUD(ns[n]) /\ IS_NODE_POWER_SAVE(ns[n]))}

RebootNodes(t) ==
    /\ pc[t] = "dispatch"
    /\ msg[t].msg_type = REQUEST_REBOOT_NODES
    /\ IF ~validate_super_user(msg[t].uid)
       THEN /\ out' = [out EXCEPT ![t] = send_rc(@, EACCES)]
            /\ pc' = [pc EXCEPT ![t] = "done"]
            /\ UNCHANGED sync
       ELSE IF reboot_bitmap(nodes, msg[t].node_list).rc # 0
       THEN /\ out' = [out EXCEPT ![t] = send_rc(@, ESLURM_INVALID_NODE_NAME)]
            /\ pc' = [pc EXCEPT ![t] = "done"]
            /\ UNCHANGED sync
       ELSE /\ sync' = [sync EXCEPT ![t] =
                           lock_slurmctld("", reboot_node_write_lock,
                                          "reboot_locked")]
            /\ pc' = [pc EXCEPT ![t] = "lock"]
            /\ UNCHANGED out
    /\ UNCHANGED <<msg, loc, acc, nrpc, svars, dvars, rvars, avars>>

RebootNodes_Locked(t) ==
    /\ pc[t] = "reboot_locked"
    /\ LET marks == reboot_marks(nodes, reboot_bitmap(nodes, msg[t].node_list).bitmap)
           want == want_nodes_reboot \/ marks # {}
       IN /\ nodes' = [n \in DOMAIN nodes |->
                          IF n \in marks
                          THEN [nodes[n] EXCEPT !.flags = @ \cup {NODE_STATE_MAINT}]
                          ELSE nodes[n]]
          /\ want_nodes_reboot' = want
          /\ locks' = unlock_slurmctld(locks, t, reboot_node_write_lock)
          /\ loc' = [loc EXCEPT ![t].error_code = SLURM_SUCCESS]
          /\ out' = [out EXCEPT ![t] =
                        [send_rc(@, SLURM_SUCCESS) EXCEPT !.node_save = want]]
          /\ pc' = [pc EXCEPT ![t] = "done"]
    /\ UNCHANGED <<msg, sync, acc, nrpc, active_rpc_cnt, jobs, conf, defer_sched,
                   diag, rvars, parts, resvs, slurmctld_config, in_progress>>

RebootMsgs ==
    [msg_type : {REQUEST_REBOOT_NODES}, uid : {4, 5},
     node_list : {NoList, "all", "n1", "n2", "n1,n2", "n9"}]

\* The node states the reboot requests meet.
RebootNodeStates ==
    [drain : {FALSE}, reason : {""}, base : {"NODE_STATE_IDLE"},
     flags : {{}, {NODE_STATE_MAINT}, {NODE_STATE_CLOUD}, {NODE_STATE_POWER_SAVE},
              {NODE_STATE_CLOUD, NODE_STATE_POWER_SAVE}}]
    \cup [drain : {FALSE}, reason : {""},
          base : {"NODE_STATE_DOWN", "NODE_STATE_FUTURE"}, flags : {{}}]

InitReboot ==
    /\ InitThreads /\ InitStats
    /\ jobs = {}
    /\ nodes \in [Nodes -> RebootNodeStates]
    /\ conf = [last_update |-> 1, defer |-> FALSE, private_data |-> {}]
    /\ defer_sched = FALSE
    /\ diag = [jobs_failed |-> 0, jobs_completed |-> 0, jobs_canceled |-> 0]
    /\ parts = {[name |-> "p1", state_up |-> TRUE]}
    /\ resvs = {}
    /\ slurmctld_config = [shutdown_time |-> 0, resume_backup |-> FALSE,
                           thread_id_sig |-> TRUE, sigterm |-> FALSE,
                           sigabrt |-> FALSE]
    /\ in_progress = FALSE
    /\ want_nodes_reboot \in BOOLEAN

NextReboot ==
    \E t \in Threads :
        \/ \E m \in RebootMsgs : Invoke(t, m)
        \/ LockStep(t)
        \/ RebootNodes(t)
        \/ RebootNodes_Locked(t)
        \/ Return(t)

SpecReboot == InitReboot /\ [][NextReboot]_vars

(***************************************************************************)
(* plugins/job_submit/pbs: the translation of PBS job dependencies.        *)
(* A C string is the sequence of its characters; job_desc->dependency is   *)
(* a record with the flag null for the NULL pointer.                       *)
(***************************************************************************)
MaxDeps == 3   \* options in one dependency string
REQUEST_UPDATE_JOB == 3001

str_after == <<"a", "f", "t", "e", "r">>
str_afterok == <<"a", "f", "t", "e", "r", "o", "k">>
str_afternotok == <<"a", "f", "t", "e", "r", "n", "o", "t", "o", "k">>
str_afterany == <<"a", "f", "t", "e", "r", "a", "n", "y">>
str_before == <<"b", "e", "f", "o", "r", "e">>
str_beforeok == <<"b", "e", "f", "o", "r", "e", "o", "k">>
str_beforenotok == <<"b", "e", "f", "o", "r", "e", "n", "o", "t", "o", "k">>
str_beforeany == <<"b", "e", "f", "o", "r", "e", "a", "n", "y">>
str_expand == <<"e", "x", "p", "a", "n", "d">>
str_on == <<"o", "n">>
str_singleton == <<"s", "i", "n", "g", "l", "e", "t", "o", "n">>

PbsOptions ==
    {str_after, str_afterok, str_afternotok, str_afterany, str_before,
     str_beforeok, str_beforenotok, str_beforeany, str_expand, str_on,
     str_singleton}

\* The options as they are written, some with the id of a job.
PbsTokens ==
    PbsOptions \cup {o \o <<":", "7">> : o \in {str_afterany, str_afterok, str_before}}

NullStr == [null |-> TRUE, str |-> <<>>]

CStr(chars) == [null |-> FALSE, str |-> chars]

\* strncmp(a, b, n): 0 when the first n characters are the same, a string
\* that ends before them included.
strncmp(a, b, n) ==
    LET Upto(x) == SubSeq(x, 1, IF Len(x) < n THEN Len(x) ELSE n)
    IN IF Upto(a) = Upto(b) THEN 0 ELSE 1

\* strtok_r(str, ",", &last_ptr), called until it returns NULL: the pieces
\* between the commas that are not empty, in their order.
RECURSIVE strtok_r(_, _)
strtok_r(str, tok) ==
    IF str = <<>>
    THEN IF tok = <<>> THEN <<>> ELSE <<tok>>
    ELSE IF Head(str) = ","
    THEN IF tok = <<>> THEN strtok_r(Tail(str), <<>>)
         ELSE <<tok>> \o strtok_r(Tail(str), <<>>)
    ELSE strtok_r(Tail(str), Append(tok, Head(str)))

\* the test of the loop of _xlate_dependency: the option is kept
xlate_keeps(tok) ==
    \/ strncmp(tok, str_after, 5) = 0
    \/ strncmp(tok, str_expand, 6) = 0
    \/ strncmp(tok, str_singleton, 9) = 0

\* the loop of _xlate_dependency over the tokens, result being built
RECURSIVE xlate_loop(_, _)
xlate_loop(toks, result) ==
    IF toks = <<>> THEN result
    ELSE IF xlate_keeps(Head(toks))
    THEN xlate_loop(Tail(toks),
                    CStr(IF result.null THEN Head(toks)
                         ELSE result.str \o <<",">> \o Head(toks)))
    ELSE xlate_loop(Tail(toks), result)

xlate_dependency(dependency) ==
    IF dependency.null THEN dependency
    ELSE xlate_loop(strtok_r(dependency.str, <<>>), NullStr)

\* The dependency strings: up to MaxDeps options with commas in between.
RECURSIVE PbsStrings(_)
PbsStrings(n) ==
    IF n = 0 THEN {<<>>}
    ELSE PbsStrings(n - 1) \cup PbsTokens
         \cup {s \o <<",">> \o tk : s \in PbsStrings(n - 1) \ {<<>>}, tk \in PbsTokens}

PbsInputs == {NullStr} \cup {CStr(s) : s \in PbsStrings(MaxDeps)}

job_submit(t) ==
    /\ pc[t] = "job_submit"
    /\ msg' = [msg EXCEPT ![t].dependency = xlate_dependency(@)]
    /\ loc' = [loc EXCEPT ![t].error_code = SLURM_SUCCESS]
    /\ pc' = [pc EXCEPT ![t] = "done"]
    /\ UNCHANGED <<sync, out, acc, nrpc, svars, dvars, rvars, avars>>

job_modify(t) ==
    /\ pc[t] = "job_modify"
    /\ msg' = [msg EXCEPT ![t].dependency = xlate_dependency(@)]
    /\ loc' = [loc EXCEPT ![t].error_code = SLURM_SUCCESS]
    /\ pc' = [pc EXCEPT ![t] = "done"]
    /\ UNCHANGED <<sync, out, acc, nrpc, svars, dvars, rvars, avars>>

\* Thread 1 is at the call of the plugin with the job descriptor of its
\* request.
InitPbs ==
    /\ InitStats /\ InitStore /\ InitAdmin
    /\ \E hook \in {"job_submit", "job_modify"}, d \in PbsInputs :
          /\ pc = [t \in Threads |-> IF t = 1 THEN hook ELSE "idle"]
          /\ msg = [t \in Threads |->
                       IF t = 1
                       THEN [msg_type |-> IF hook = "job_submit"
                                          THEN REQUEST_SUBMIT_BATCH_JOB
                                          ELSE REQUEST_UPDATE_JOB,
                             uid |-> 2, dependency |-> d]
                       ELSE NoMsg]
    /\ loc = [t \in Threads |-> NoLoc]
    /\ sync = [t \in Threads |-> NoSync]
    /\ out = [t \in Threads |-> NoOut]
    /\ acc = [t \in Threads |-> "none"]
    /\ nrpc = 1
    /\ active_rpc_cnt = [h \in Throttled |-> 0]
    /\ locks = [a \in 1..NAxes |-> [w |-> 0, r |-> {}]]

NextPbs == \E t \in Threads : job_submit(t) \/ job_modify(t) \/ Return(t)

SpecPbs == InitPbs /\ [][NextPbs]_vars

(***************************************************************************)
(* SpecNode: the RPCs that come from the nodes, called concurrently, from  *)
(* the slurm user and from the owner of job 1.                             *)
(***************************************************************************)
RegistrationMsgs ==
    [msg_type : {MESSAGE_NODE_REGISTRATION_STATUS}, uid : {SlurmUser, 2},
     node_name : {"n2"}, config_ok : BOOLEAN]

PingMsgs == [msg_type : {REQUEST_PING}, uid : {SlurmUser, 2}]

NodeMsgs ==
    {m \in EpilogMsgs : m.node_name = "n1"}
    \cup {m \in BatchMsgs : /\ m.node_name = "n1" /\ m.job_rc = 0
                            /\ m.slurm_rc \in {SLURM_SUCCESS, ESLURMD_PROLOG_FAILED}}
    \cup [msg_type : {REQUEST_STEP_COMPLETE}, uid : {SlurmUser, 2}, job_id : {1},
          job_step_id : {0, SLURM_BATCH_SCRIPT}, range_first : {0},
          range_last : {1}, step_rc : {0}]
    \cup RegistrationMsgs \cup PingMsgs

HandleNode(t) ==
    \/ ThrottleStart(t)
    \/ LockStep(t)
    \/ EpilogComplete(t)
    \/ EpilogComplete_Locked(t)
    \/ CompleteBatchScript(t)
    \/ CompleteBatchScript_Locked(t)
    \/ StepComplete(t)
    \/ StepComplete_Locked(t)
    \/ NodeRegistration(t)
    \/ NodeRegistration_Locked(t)
    \/ Ping(t)

NextNode ==
    \E t \in Threads :
        \/ \E m \in NodeMsgs : Invoke(t, m)
        \/ HandleNode(t)
        \/ Return(t)

SpecNode == Init /\ [][NextNode]_vars

(***************************************************************************)
(* SpecJob: the RPCs that write to one job, called concurrently by the     *)
(* owner of job 1 and by others, while the prolog of job 1 runs or after.  *)
(***************************************************************************)
InitJob ==
    /\ InitThreads /\ InitStats /\ InitAdmin
    /\ jobs \in {{[RunningJob(1, 2, Nodes, "n1") EXCEPT !.prolog_running = b]} :
                    b \in BOOLEAN}
    /\ nodes = [n \in Nodes |-> [drain |-> FALSE, reason |-> ""]]
    /\ conf = [last_update |-> 1, defer |-> FALSE, private_data |-> {}]
    /\ defer_sched = FALSE
    /\ diag = [jobs_failed |-> 0, jobs_completed |-> 0, jobs_canceled |-> 0]

PrologMsgs ==
    [msg_type : {REQUEST_COMPLETE_PROLOG}, uid : {SlurmUser, 2, 5}, job_id : {1},
     prolog_rc : {0}]

StepCreateMsgs ==
    [msg_type : {REQUEST_JOB_STEP_CREATE}, uid : {0, 2, 5}, user_id : {2, 5},
     job_id : {1}]

JobMsgs ==
    PrologMsgs \cup StepCreateMsgs
    \cup {m \in CompleteJobMsgs : m.job_id = 1}
    \cup {m \in SubmitMsgs : /\ m.job_id = 1 /\ m.alloc_node /\ m.valid
                             /\ m.immediate = 0 /\ ~m.array_inx}

HandleJob(t) ==
    \/ ThrottleStart(t)
    \/ LockStep(t)
    \/ CompleteProlog(t)
    \/ CompleteProlog_Locked(t)
    \/ JobStepCreate(t)
    \/ JobStepCreate_Locked(t)
    \/ CompleteJobAllocation(t)
    \/ CompleteJobAllocation_Locked(t)
    \/ SubmitBatchJob(t)
    \/ SubmitBatchJob_Validate(t)
    \/ SubmitBatchJob_Locked(t)

NextJob ==
    \E t \in Threads :
        \/ \E m \in JobMsgs : Invoke(t, m)
        \/ HandleJob(t)
        \/ Return(t)

SpecJob == InitJob /\ [][NextJob]_vars

(***************************************************************************)
(* SpecRead: the read RPCs for jobs, nodes and partitions, called by the   *)
(* owner of a job and by an operator under every setting of private_data,  *)
(* while a super-user updates partitions.                                  *)
(***************************************************************************)
InitRead ==
    /\ InitThreads /\ InitStats /\ InitAdmin
    /\ jobs = {RunningJob(1, 2, Nodes, "n1"),
               [RunningJob(2, 5, {}, "") EXCEPT !.job_state = "JOB_PENDING"]}
    /\ nodes = [n \in Nodes |-> [drain |-> FALSE, reason |-> ""]]
    /\ conf \in [last_update : {1}, defer : {FALSE}, private_data : SUBSET PrivateData]
    /\ defer_sched = FALSE
    /\ diag = [jobs_failed |-> 0, jobs_completed |-> 0, jobs_canceled |-> 0]

ReadMsgs ==
    [msg_type : {REQUEST_JOB_INFO, REQUEST_NODE_INFO, REQUEST_PARTITION_INFO},
     uid : {2, 3}, last_update : {0, 2}]

ReadSideMsgs ==
    ReadMsgs \cup {m \in PartitionMsgs : m.msg_type = REQUEST_UPDATE_PARTITION
                                         /\ m.uid = 4}

HandleRead(t) ==
    \/ LockStep(t)
    \/ DumpJobs(t)
    \/ DumpJobs_Locked(t)
    \/ DumpNodes(t)
    \/ DumpNodes_Locked(t)
    \/ DumpPartitions(t)
    \/ DumpPartitions_Locked(t)
    \/ UpdatePartition(t)
    \/ UpdatePartition_Locked(t)

NextRead ==
    \E t \in Threads :
        \/ \E m \in ReadSideMsgs : Invoke(t, m)
        \/ HandleRead(t)
        \/ Return(t)

SpecRead == InitRead /\ [][NextRead]_vars

(***************************************************************************)
(* SpecIo: handlers that put something on the network before they give    *)
(* their locks back, called concurrently.                                  *)
(***************************************************************************)
KillMsgs == [msg_type : {REQUEST_KILL_JOB}, uid : {2, 5}, job_id : {1}]

IoMsgs ==
    KillMsgs
    \cup {m \in BatchMsgs : /\ m.node_name = "n1" /\ m.uid = SlurmUser
                            /\ m.job_rc = 0 /\ m.slurm_rc = SLURM_SUCCESS}
    \cup {m \in SubmitMsgs : /\ m.job_id = 1 /\ m.alloc_node /\ m.valid
                             /\ m.immediate = 0 /\ ~m.array_inx}
    \cup {m \in ReconfigureMsgs : m.uid = 4}
    \cup {m \in ShutdownMsgs : /\ m.msg_type = REQUEST_SHUTDOWN /\ m.uid = 4
                               /\ m.options = 0}

HandleIo(t) ==
    \/ ThrottleStart(t)
    \/ LockStep(t)
    \/ KillJob2(t)
    \/ KillJob2_Locked(t)
    \/ CompleteBatchScript(t)
    \/ CompleteBatchScript_Locked(t)
    \/ SubmitBatchJob(t)
    \/ SubmitBatchJob_Validate(t)
    \/ SubmitBatchJob_Locked(t)
    \/ ReconfigureController(t)
    \/ ReconfigureController_Locked(t)
    \/ ReconfigureController_Read(t)
    \/ ShutdownController(t)
    \/ ShutdownController_Locked(t)

NextIo ==
    \/ \E t \in Threads :
           \/ \E m \in IoMsgs : Invoke(t, m)
           \/ HandleIo(t)
           \/ Return(t)
    \/ SignalHand

SpecIo == InitJob /\ [][NextIo]_vars

(***************************************************************************)
(* Cancellations: jobs 1 and 2 of user 2 run, job 1 with step 0.           *)
(***************************************************************************)
InitKill ==
    /\ InitThreads /\ InitStats /\ InitAdmin
    /\ jobs = {[RunningJob(1, 2, {"n1"}, "n1") EXCEPT
                   !.steps = {[step_id |-> 0, remaining |-> {0}]}],
               RunningJob(2, 2, Nodes \ {"n1"}, "")}
    /\ nodes = [n \in Nodes |-> [drain |-> FALSE, reason |-> ""]]
    /\ conf = [last_update |-> 1, defer |-> FALSE, private_data |-> {}]
    /\ defer_sched = FALSE
    /\ diag = [jobs_failed |-> 0, jobs_completed |-> 0, jobs_canceled |-> 0]

CancelMsgs ==
    [msg_type : {REQUEST_CANCEL_JOB_STEP}, uid : {2, 5}, job_id : {1, 2},
     job_step_id : {SLURM_BATCH_SCRIPT, 0}, signal : {"SIGKILL", "SIGTERM"}]

NextKill ==
    \E t \in Threads :
        \/ \E m \in CancelMsgs : Invoke(t, m)
        \/ ThrottleStart(t)
        \/ LockStep(t)
        \/ JobStepKill(t)
        \/ JobStepKill_Locked(t)
        \/ JobStepKill_Count(t)
        \/ JobStepKill_Store(t)
        \/ Return(t)

SpecKill == InitKill /\ [][NextKill]_vars

(***************************************************************************)
(* The seven handlers that pass the throttle gate, side by side.           *)
(***************************************************************************)
ThrottledTypes ==
    {REQUEST_RESOURCE_ALLOCATION, REQUEST_SUBMIT_BATCH_JOB,
     REQUEST_CANCEL_JOB_STEP, REQUEST_COMPLETE_JOB_ALLOCATION,
     REQUEST_COMPLETE_BATCH_SCRIPT, REQUEST_JOB_STEP_CREATE,
     REQUEST_STEP_COMPLETE}

ThrottledMsgs ==
    {m \in GateMsgs : m.msg_type \in ThrottledTypes}
    \cup {m \in StepCreateMsgs : m.uid = m.user_id}
    \cup {m \in CancelMsgs : m.uid = 2 /\ m.job_id = 1}

NextThrottled ==
    \E t \in Threads :
        \/ \E m \in ThrottledMsgs : Invoke(t, m)
        \/ ThrottleStart(t)
        \/ LockStep(t)
        \/ AllocateResources(t)
        \/ AllocateResources_Validate(t)
        \/ AllocateResources_Locked(t)
        \/ KillJobOnMsgFail_Locked(t)
        \/ SubmitBatchJob(t)
        \/ SubmitBatchJob_Validate(t)
        \/ SubmitBatchJob_Locked(t)
        \/ JobStepKill(t)
        \/ JobStepKill_Locked(t)
        \/ JobStepKill_Count(t)
        \/ JobStepKill_Store(t)
        \/ CompleteJobAllocation(t)
        \/ CompleteJobAllocation_Locked(t)
        \/ CompleteBatchScript(t)
        \/ CompleteBatchScript_Locked(t)
        \/ JobStepCreate(t)
        \/ JobStepCreate_Locked(t)
        \/ StepComplete(t)
        \/ StepComplete_Locked(t)
        \/ Return(t)

SpecThrottled == Init /\ [][NextThrottled]_vars

(***************************************************************************)
(* A reconfiguration among batch submissions, every thread that can step   *)
(* being scheduled in the end.                                             *)
(***************************************************************************)
LiveMsgs ==
    ReconfigureMsgs \cup
    {m \in SubmitMsgs : /\ m.uid = 2 /\ m.alloc_node /\ m.valid /\ ~m.array_inx
                        /\ m.job_id = SLURM_BATCH_SCRIPT}

LiveStep(t) ==
    \/ ThrottleStart(t)
    \/ LockStep(t)
    \/ SubmitBatchJob(t)
    \/ SubmitBatchJob_Validate(t)
    \/ SubmitBatchJob_Locked(t)
    \/ ReconfigureController(t)
    \/ ReconfigureController_Locked(t)
    \/ ReconfigureController_Read(t)
    \/ Return(t)

NextLive == \E t \in Threads : (\E m \in LiveMsgs : Invoke(t, m)) \/ LiveStep(t)

SpecLive ==
    Init /\ [][NextLive]_vars /\ \A t \in Threads : WF_vars(LiveStep(t))

(***************************************************************************)
(* A stream of job completions that never ends, with a reader of the job   *)
(* table among them; every thread that can step is scheduled in the end.   *)
(***************************************************************************)
\* Thread 1 serves the reader, the other threads the completions.
StreamMsgs(t) ==
    IF t = 1 THEN [msg_type : {REQUEST_JOB_INFO}, uid : {2}, last_update : {0}]
    ELSE CompleteJobMsgs

StreamArrive(t) ==
    /\ pc[t] = "idle"
    /\ \E m \in StreamMsgs(t) : msg' = [msg EXCEPT ![t] = m]
    /\ pc' = [pc EXCEPT ![t] = "dispatch"]
    /\ loc' = [loc EXCEPT ![t] = NoLoc]
    /\ out' = [out EXCEPT ![t] = NoOut]
    /\ acc' = [acc EXCEPT ![t] = "none"]
    /\ UNCHANGED <<sync, nrpc, svars, dvars, rvars, avars>>

StreamStep(t) ==
    \/ ThreadStep(t)
    \/ DumpJobs(t)
    \/ DumpJobs_Locked(t)

NextStream == \E t \in Threads : StreamArrive(t) \/ StreamStep(t)

SpecStream ==
    Init /\ [][NextStream]_vars /\ \A t \in Threads : WF_vars(StreamStep(t))

(***************************************************************************)
(* The throttle gate.                                                      *)
(***************************************************************************)
\* Thread t is between the return of _throttle_start and _throttle_fini.
InGate(t) == sync[t].gate # "" /\ pc[t] \notin {"throttle", "cond_wait", "done"}

\* Thread t is in _throttle_start.
AtGate(t) == pc[t] \in {"throttle", "cond_wait"}

\* C2, as claimed: with fair scheduling of the threads, every invocation
\* that is in _throttle_start gets through the gate at some time.
C2_StarvationFree == \A t \in Threads : AtGate(t) ~> InGate(t)

\* C1, as claimed: at every instant at most one invocation of a throttled
\* handler is inside the gate, all five handlers counted together.
C1_OneInGate == Cardinality({t \in Threads : InGate(t)}) <= 1

\* C1, amended: at every instant at most one invocation of each throttled
\* handler is inside the gate, counted for each handler on its own.
C1_OnePerHandler ==
    \A h \in Throttled :
        Cardinality({t \in Threads : InGate(t) /\ sync[t].gate = h}) <= 1

\* One invocation is inside the gate and another of the same handler waits.
C1_Witness ==
    \E t, u \in Threads :
        /\ t # u
        /\ InGate(t)
        /\ pc[u] = "cond_wait"
        /\ sync[u].gate = sync[t].gate

(***************************************************************************)
(* The lock domain.                                                        *)
(***************************************************************************)
\* Thread t is blocked in lock_slurmctld on the axis it takes next.
LockWaiting(t) ==
    /\ pc[t] = "lock"
    /\ ~CanLock(t, sync[t].axis, sync[t].set[sync[t].axis])

\* Thread t is inside an RPC and its next step is enabled.
CanStep(t) == pc[t] \notin {"idle", "cond_wait"} /\ ~LockWaiting(t)

\* C3: whenever some handler waits for an axis of the lock domain, some
\* handler can still take a step; no set of handlers is deadlocked, also
\* not one that holds handlers locking twice or three times in a row.
C3_NoDeadlock ==
    (\E t \in Threads : LockWaiting(t)) => (\E u \in Threads : CanStep(u))

\* _kill_job_on_msg_fail, the third locking of an allocate, waits for an
\* axis another handler holds, after that handler waited for an axis too.
C3_Witness ==
    \E t, u \in Threads :
        /\ LockWaiting(t)
        /\ sync[t].ret = "kill_locked"
        /\ HoldsAny(u)
        /\ ~HoldsAny(t)

\* C4, as claimed: no handler looks up or dereferences a job record
\* without holding a lock on the job axis.
C4_JobAccessLocked == \A t \in Threads : acc[t] # "unlocked"

(***************************************************************************)
(* The RPC telemetry.                                                      *)
(***************************************************************************)
\* C5, as claimed: when an invocation is back from its handler and its
\* counters are about to be updated, the slots found on its arrival still
\* carry its message type and its caller's uid.
C5_SlotMatches ==
    \A t \in Threads :
        pc[t] = "done" =>
            /\ loc[t].rpc_type_index >= 0
                   => rpc_type[loc[t].rpc_type_index].id = msg[t].msg_type
            /\ loc[t].rpc_user_index >= 0
                   => rpc_user[loc[t].rpc_user_index].id = msg[t].uid

(***************************************************************************)
(* Replies.                                                                *)
(***************************************************************************)
\* The RPC of thread t is over: its handler has returned, or it was dropped.
Handled(t) == pc[t] \in {"done", "finished"}

\* A reply was sent, or its sending was tried, on the connection.
Answered(t) == out[t].kind \notin {"none", "fatal"}

\* The RPCs the code answers: those with a valid credential, other than
\* epilog complete, and batch complete only from root or the slurm user.
ToAnswer(t) ==
    /\ loc[t].auth_ok
    /\ msg[t].msg_type # MESSAGE_EPILOG_COMPLETE
    /\ msg[t].msg_type \in {REQUEST_COMPLETE_BATCH_SCRIPT, REQUEST_COMPLETE_BATCH_JOB}
           => validate_slurm_user(msg[t].uid)

CompletionTypes == {MESSAGE_EPILOG_COMPLETE, REQUEST_COMPLETE_BATCH_SCRIPT,
                    REQUEST_COMPLETE_BATCH_JOB, REQUEST_STEP_COMPLETE,
                    REQUEST_COMPLETE_JOB_ALLOCATION}

\* C8, as claimed: in defer mode the handler of a completion event returns
\* without having run a scheduling pass.
C8_NoSchedInDefer ==
    \A t \in Threads :
        (pc[t] = "done" /\ conf.defer /\ msg[t].msg_type \in CompletionTypes)
            => ~out[t].sched

\* C8, amended: in defer mode the handlers of epilog complete, step
\* complete and job complete return without having run a scheduling pass.
C8_NoSchedInDeferButBatch ==
    \A t \in Threads :
        (/\ pc[t] = "done" /\ conf.defer
         /\ msg[t].msg_type \in {MESSAGE_EPILOG_COMPLETE, REQUEST_STEP_COMPLETE,
                                 REQUEST_COMPLETE_JOB_ALLOCATION})
            => ~out[t].sched

\* In defer mode the last epilog of a job was reported: the handler has
\* queued the state saves and is done.
C8_Witness ==
    \E t \in Threads :
        /\ pc[t] = "done"
        /\ conf.defer
        /\ msg[t].msg_type = MESSAGE_EPILOG_COMPLETE
        /\ out[t].node_save
        /\ out[t].job_save

\* A step of thread t's handler ends Completing for some job.
EndsCompleting(t) ==
    /\ pc[t] # pc'[t]
    /\ \E j \in jobs, k \in jobs' :
           j.job_id = k.job_id /\ IS_JOB_COMPLETING(j) /\ ~IS_JOB_COMPLETING(k)

\* C9, as claimed: without defer mode, a handler step that ends Completing
\* for a job has run the scheduler by the time the handler returns, on
\* whichever RPC the last epilog was reported.
C9_KickAfterCompleting ==
    [][\A t \in Threads :
          (EndsCompleting(t) /\ ~conf.defer /\ pc'[t] = "done") => out'[t].sched]_vars

(***************************************************************************)
(* Batch complete.                                                         *)
(***************************************************************************)
\* The slurmd return codes for which the node is to be drained.
C10_DrainingRc(rc) ==
    rc \notin {SLURM_SUCCESS, ESLURM_ALREADY_DONE, ESLURMD_CREDENTIAL_REVOKED,
               SLURM_COMMUNICATIONS_SEND_ERROR, ESLURM_USER_ID_MISSING,
               ESLURMD_UID_NOT_FOUND, ESLURMD_GID_NOT_FOUND,
               ESLURMD_INVALID_ACCT_FREQ}

C10_Drained(ns, n) ==
    ns[n].drain /\ ns[n].reason = "batch job complete failure"

\* C10, as claimed: the handler of a batch complete from an authorized
\* caller with such a return code leaves the reporting node drained.
C10_DrainsReporter ==
    [][\A t \in Threads :
          (pc[t] = "cbs_locked" /\ pc'[t] = "done" /\ C10_DrainingRc(msg[t].slurm_rc))
              => C10_Drained(nodes', msg[t].node_name)]_vars

\* C10, amended: it does so unless the job is known and its batch host is
\* another node than the reporting one; then the request is ignored.
C10_DrainsBatchHost ==
    [][\A t \in Threads :
          (/\ pc[t] = "cbs_locked" /\ pc'[t] = "done"
           /\ C10_DrainingRc(msg[t].slurm_rc))
              => IF BatchWrongNode(jobs, msg[t])
                 THEN nodes' = nodes /\ jobs' = jobs
                 ELSE C10_Drained(nodes', msg[t].node_name)]_vars

\* A batch complete with a fatal return code from the batch host is done
\* and the host is drained.
C10_Witness ==
    \E t \in Threads :
        /\ pc[t] = "done"
        /\ msg[t].msg_type \in {REQUEST_COMPLETE_BATCH_SCRIPT, REQUEST_COMPLETE_BATCH_JOB}
        /\ validate_slurm_user(msg[t].uid)
        /\ msg[t].slurm_rc = ESLURMD_PROLOG_FAILED
        /\ msg[t].node_name = "n1"
        /\ C10_Drained(nodes, "n1")

\* The slurmd return codes named as transient.
C11_Transient == {ESLURM_ALREADY_DONE, ESLURMD_CREDENTIAL_REVOKED,
                  ESLURM_RESERVATION_NOT_USABLE}

\* The step of thread t is the locked part of a batch complete.
BatchCompleteStep(t) == pc[t] = "cbs_locked" /\ pc'[t] = "done"

\* The step drains the reporting node and counts one more failed job.
C11_HandledFatal(t) ==
    /\ C10_Drained(nodes', msg[t].node_name)
    /\ diag'.jobs_failed = diag.jobs_failed + 1

\* The step drains no node and counts no failed job.
C11_HandledNonFatal == nodes' = nodes /\ diag'.jobs_failed = diag.jobs_failed

\* C11, as claimed: a batch complete whose slurmd return code is
\* ESLURM_ALREADY_DONE, ESLURMD_CREDENTIAL_REVOKED or
\* ESLURM_RESERVATION_NOT_USABLE drains no node and does not count the job
\* in jobs_failed.
C11_TransientNonFatal ==
    [][\A t \in Threads :
          (BatchCompleteStep(t) /\ msg[t].slurm_rc \in C11_Transient)
              => C11_HandledNonFatal]_vars

\* C11, amended: this is so for ESLURM_ALREADY_DONE and
\* ESLURMD_CREDENTIAL_REVOKED; without HAVE_ALPS_CRAY a batch complete with
\* ESLURM_RESERVATION_NOT_USABLE is fatal: unless it comes from a node other
\* than the job's batch host, the reporting node is drained and the job is
\* counted in jobs_failed.
C11_RaceNonFatal ==
    [][\A t \in Threads :
          BatchCompleteStep(t) =>
              /\ msg[t].slurm_rc \in {ESLURM_ALREADY_DONE, ESLURMD_CREDENTIAL_REVOKED}
                     => C11_HandledNonFatal
              /\ msg[t].slurm_rc = ESLURM_RESERVATION_NOT_USABLE
                     => IF BatchWrongNode(jobs, msg[t])
                        THEN C11_HandledNonFatal
                        ELSE C11_HandledFatal(t)]_vars

\* A batch complete with ESLURMD_CREDENTIAL_REVOKED from the batch host of
\* the running job is done: the job is completed and counted so, nothing is
\* drained.
C11_Witness ==
    \E t \in Threads :
        /\ pc[t] = "done"
        /\ msg[t].msg_type = REQUEST_COMPLETE_BATCH_SCRIPT
        /\ msg[t].slurm_rc = ESLURMD_CREDENTIAL_REVOKED
        /\ msg[t].node_name = "n1"
        /\ out[t].kind = "rc" /\ out[t].val = SLURM_SUCCESS
        /\ diag.jobs_completed = 1 /\ diag.jobs_failed = 0
        /\ \A n \in Nodes : ~nodes[n].drain

\* C12: a batch complete whose slurmd return code is
\* SLURM_COMMUNICATIONS_SEND_ERROR, ESLURM_USER_ID_MISSING,
\* ESLURMD_UID_NOT_FOUND, ESLURMD_GID_NOT_FOUND or ESLURMD_INVALID_ACCT_FREQ
\* sets Drain on no node: the node records are as they were.
C12_LoggedOnly ==
    [][\A t \in Threads :
          (/\ BatchCompleteStep(t)
           /\ msg[t].slurm_rc \in {SLURM_COMMUNICATIONS_SEND_ERROR,
                                   ESLURM_USER_ID_MISSING, ESLURMD_UID_NOT_FOUND,
                                   ESLURMD_GID_NOT_FOUND, ESLURMD_INVALID_ACCT_FREQ})
              => nodes' = nodes]_vars

\* A batch complete with ESLURMD_UID_NOT_FOUND from the batch host of the
\* running job is done: the job's allocation is completed, no node drained.
C12_Witness ==
    \E t \in Threads :
        /\ pc[t] = "done"
        /\ msg[t].msg_type \in {REQUEST_COMPLETE_BATCH_SCRIPT, REQUEST_COMPLETE_BATCH_JOB}
        /\ validate_slurm_user(msg[t].uid)
        /\ msg[t].slurm_rc = ESLURMD_UID_NOT_FOUND
        /\ msg[t].node_name = "n1"
        /\ out[t].kind = "rc" /\ out[t].val = SLURM_SUCCESS
        /\ diag.jobs_completed = 1
        /\ \A n \in Nodes : ~nodes[n].drain

AdminTypes == {REQUEST_RECONFIGURE, REQUEST_SHUTDOWN, REQUEST_CONTROL,
               REQUEST_SHUTDOWN_IMMEDIATE, REQUEST_UPDATE_NODE,
               REQUEST_CREATE_PARTITION, REQUEST_UPDATE_PARTITION,
               REQUEST_DELETE_PARTITION, REQUEST_CREATE_RESERVATION,
               REQUEST_UPDATE_RESERVATION, REQUEST_DELETE_RESERVATION}

ResvTypes == {REQUEST_CREATE_RESERVATION, REQUEST_UPDATE_RESERVATION,
              REQUEST_DELETE_RESERVATION}

\* Thread t takes a step of the handler of an administrative RPC.
AdminStep(t) == pc'[t] # pc[t] /\ msg[t].msg_type \in AdminTypes

\* The step changes nothing of what the administrative RPCs are about.
AdminStateKept ==
    UNCHANGED <<nodes, parts, resvs, conf, slurmctld_config, in_progress, jobs>>

\* The handler of thread t has ended after this step, and has answered
\* with one of the return codes rcs.
AdminRefused(t, rcs) ==
    pc'[t] = "done" => (out'[t].kind = "rc" /\ out'[t].val \in rcs)

\* C14, as claimed: a step of the handler of an administrative RPC from a
\* caller who is no super-user changes no state, and its handler ends with
\* the authorization error as the answer.
C14_SuperUserOnly ==
    [][\A t \in Threads :
          (AdminStep(t) /\ ~validate_super_user(msg[t].uid))
              => AdminStateKept /\ AdminRefused(t, {ESLURM_USER_ID_MISSING})]_vars

\* The callers an administrative RPC is accepted from: operators for the
\* reservation RPCs, super-users for the others.
C14_Allowed(m) ==
    IF m.msg_type \in ResvTypes
    THEN validate_operator(m.uid) ELSE validate_super_user(m.uid)

\* C14, amended: a step of the handler of an administrative RPC from a
\* caller it is not accepted from changes no state; its handler ends with a
\* return code other than success as the answer, ESLURM_USER_ID_MISSING
\* or, for a reconfigure, EINPROGRESS; an immediate shutdown is never
\* answered.
C14_AllowedOnly ==
    [][\A t \in Threads :
          (AdminStep(t) /\ ~C14_Allowed(msg[t]))
              => /\ AdminStateKept
                 /\ IF msg[t].msg_type = REQUEST_SHUTDOWN_IMMEDIATE
                    THEN out'[t].kind = "none"
                    ELSE AdminRefused(t,
                             IF msg[t].msg_type = REQUEST_RECONFIGURE
                             THEN {ESLURM_USER_ID_MISSING, EINPROGRESS}
                             ELSE {ESLURM_USER_ID_MISSING})]_vars

\* A partition update from a plain user was refused while the partition
\* was there to be updated, and a node update from a super-user has
\* drained node n1.
C14_Witness ==
    \E t \in Threads :
        /\ pc[t] = "done"
        /\ msg[t].msg_type = REQUEST_UPDATE_PARTITION
        /\ ~validate_operator(msg[t].uid)
        /\ out[t].kind = "rc" /\ out[t].val = ESLURM_USER_ID_MISSING
        /\ \E pt \in parts : pt.name = msg[t].name /\ pt.state_up
        /\ nodes["n1"].drain

(***************************************************************************)
(* RPCs from the nodes.                                                    *)
(***************************************************************************)
NodeOriginTypes == {MESSAGE_NODE_REGISTRATION_STATUS, MESSAGE_EPILOG_COMPLETE,
                    REQUEST_STEP_COMPLETE, REQUEST_COMPLETE_BATCH_SCRIPT,
                    REQUEST_COMPLETE_BATCH_JOB, REQUEST_PING}

\* The step changes no record and no counter of the controller.
StoreKept ==
    UNCHANGED <<jobs, nodes, diag, conf, defer_sched, parts, resvs,
                slurmctld_config, in_progress, want_nodes_reboot>>

\* Thread t takes a step of the handler of an RPC of one of the types from
\* a caller who is neither root nor the slurm user.
C15_ForeignStep(t, types) ==
    /\ pc'[t] # pc[t]
    /\ pc[t] \notin {"idle", "done", "cond_wait"}
    /\ msg[t].msg_type \in types
    /\ ~validate_slurm_user(msg[t].uid)

\* The answer the handler of thread t has given after the step is not a
\* success.
C15_NoSuccess(t) ==
    /\ out'[t].kind \in {"none", "rc"}
    /\ out'[t].kind = "rc" => out'[t].val # SLURM_SUCCESS

\* C15, as claimed: the handler of a registration, epilog complete, step
\* complete, batch complete or ping from a caller without the slurm-user
\* identity changes no controller state and does not answer with success.
C15_SlurmUserOnly ==
    [][\A t \in Threads :
          C15_ForeignStep(t, NodeOriginTypes) => StoreKept /\ C15_NoSuccess(t)]_vars

\* C15, amended: this is so for a registration, epilog complete, step
\* complete and batch complete; a ping is not authenticated: it changes no
\* controller state and is answered with success, whoever sends it.
C15_SlurmUserOnlyButPing ==
    [][\A t \in Threads :
          /\ C15_ForeignStep(t, NodeOriginTypes \ {REQUEST_PING})
                 => StoreKept /\ C15_NoSuccess(t)
          /\ (pc[t] = "dispatch" /\ pc'[t] # pc[t] /\ msg[t].msg_type = REQUEST_PING)
                 => /\ StoreKept
                    /\ out'[t].kind = "rc" /\ out'[t].val = SLURM_SUCCESS]_vars

\* The registration of a node with a configuration mismatch, sent by a
\* plain user, was refused, and the node is not drained.
C15_Witness ==
    \E t \in Threads :
        /\ pc[t] = "done"
        /\ msg[t].msg_type = MESSAGE_NODE_REGISTRATION_STATUS
        /\ ~validate_slurm_user(msg[t].uid)
        /\ ~msg[t].config_ok
        /\ out[t].kind = "rc" /\ out[t].val = ESLURM_USER_ID_MISSING
        /\ ~nodes[msg[t].node_name].drain

(***************************************************************************)
(* Write RPCs that target one job.                                         *)
(***************************************************************************)
JobWriteTypes == {REQUEST_COMPLETE_PROLOG, REQUEST_JOB_STEP_CREATE,
                  REQUEST_SUBMIT_BATCH_JOB, REQUEST_COMPLETE_JOB_ALLOCATION}

\* The caller of the RPC of thread t owns the job the RPC names.
OwnsJob(t) ==
    \E j \in jobs : j.job_id = msg[t].job_id /\ j.user_id = msg[t].uid

\* C16: a step of the handler of a prolog complete, a step create, a batch
\* step launch into an existing allocation or a job complete changes a job
\* record only if the caller owns the job or is an operator.
C16_OwnerOrOperator ==
    [][\A t \in Threads :
          (/\ pc'[t] # pc[t]
           /\ pc[t] \notin {"idle", "done", "cond_wait"}
           /\ msg[t].msg_type \in JobWriteTypes
           /\ jobs' # jobs)
          => OwnsJob(t) \/ validate_operator(msg[t].uid)]_vars

(***************************************************************************)
(* Read RPCs and slurmctld_conf.private_data.                              *)
(***************************************************************************)
ReadTypes == {REQUEST_JOB_INFO, REQUEST_NODE_INFO, REQUEST_PARTITION_INFO}

\* The bit of private_data and the response of each type of read RPC.

PrivateBit(type) ==
    CASE type = REQUEST_JOB_INFO -> PRIVATE_DATA_JOBS
      [] type = REQUEST_NODE_INFO -> PRIVATE_DATA_NODES
      [] type = REQUEST_PARTITION_INFO -> PRIVATE_DATA_PARTITIONS

ResponseKind(type) ==
    CASE type = REQUEST_JOB_INFO -> "RESPONSE_JOB_INFO"
      [] type = REQUEST_NODE_INFO -> "RESPONSE_NODE_INFO"
      [] type = REQUEST_PARTITION_INFO -> "RESPONSE_PARTITION_INFO"

\* All objects of the kind, and those the user owns: only jobs have owners.
AllObjects(type) ==
    CASE type = REQUEST_JOB_INFO -> {j.job_id : j \in jobs}
      [] type = REQUEST_NODE_INFO -> DOMAIN nodes
      [] type = REQUEST_PARTITION_INFO -> {q.name : q \in parts}

OwnedObjects(type, uid) ==
    IF type = REQUEST_JOB_INFO
    THEN {j.job_id : j \in {k \in jobs : k.user_id = uid}}
    ELSE {}

\* Thread t sends the answer of a read RPC in this step.
ReadReply(t) ==
    /\ msg[t].msg_type \in ReadTypes
    /\ pc[t] \in {"dump_jobs", "dump_nodes", "dump_parts"}
    /\ pc'[t] = "done"

\* The caller of thread t is no operator and the bit for the kind is set.
Masked(t) ==
    /\ PrivateBit(msg[t].msg_type) \in conf.private_data
    /\ ~validate_operator(msg[t].uid)

\* The answer of thread t is the response with exactly the objects S.
AnsweredWith(t, S) ==
    /\ out'[t].kind = ResponseKind(msg[t].msg_type)
    /\ out'[t].val = S

AnsweredRc(t, rc) == out'[t].kind = "rc" /\ out'[t].val = rc

\* C17, as claimed: with the bit set a non-operator is answered with
\* exactly the objects they own, otherwise the answer holds all objects.
C17_OwnedUnderMask ==
    [][\A t \in Threads :
          ReadReply(t) =>
              IF Masked(t)
              THEN AnsweredWith(t, OwnedObjects(msg[t].msg_type, msg[t].uid))
              ELSE AnsweredWith(t, AllObjects(msg[t].msg_type))]_vars

\* The caller's copy is as new as the records.
UpToDate(t) == msg[t].last_update - 1 >= 1

\* C17, amended: with the bit set a non-operator gets exactly their own
\* jobs from a job read, and ESLURM_ACCESS_DENIED from a node or partition
\* read; otherwise the answer holds all objects.  A caller whose copy is up
\* to date gets SLURM_NO_CHANGE_IN_DATA in place of the objects.
C17_OwnJobsElseDenied ==
    [][\A t \in Threads :
          ReadReply(t) =>
              IF Masked(t) /\ msg[t].msg_type # REQUEST_JOB_INFO
              THEN AnsweredRc(t, ESLURM_ACCESS_DENIED)
              ELSE IF UpToDate(t)
              THEN AnsweredRc(t, SLURM_NO_CHANGE_IN_DATA)
              ELSE IF Masked(t)
              THEN AnsweredWith(t, OwnedObjects(msg[t].msg_type, msg[t].uid))
              ELSE AnsweredWith(t, AllObjects(msg[t].msg_type))]_vars

\* User 2 has read the jobs under PRIVATE_DATA_JOBS and got job 1 alone,
\* while the controller has a job of another user.
C17_Witness ==
    \E t \in Threads :
        /\ pc[t] = "done"
        /\ msg[t].msg_type = REQUEST_JOB_INFO
        /\ msg[t].uid = 2
        /\ PRIVATE_DATA_JOBS \in conf.private_data
        /\ out[t].kind = "RESPONSE_JOB_INFO"
        /\ out[t].val = {1}
        /\ \E j \in jobs : j.user_id # 2

(***************************************************************************)
(* The lock sets of a partition update and of a job read.                  *)
(***************************************************************************)
PartUpdateTypes == {REQUEST_CREATE_PARTITION, REQUEST_UPDATE_PARTITION}

\* Thread t waits in lock_slurmctld for an axis that thread u holds.
Blocks(u, t) ==
    /\ pc[t] = "lock"
    /\ LET a == sync[t].axis
       IN IF sync[t].set[a] = WRITE_LOCK
          THEN locks[a].w = u \/ u \in locks[a].r
          ELSE locks[a].w = u

\* One of the two threads handles a partition update, the other a job read.
C18_Pair(t, u) ==
    \/ msg[t].msg_type \in PartUpdateTypes /\ msg[u].msg_type = REQUEST_JOB_INFO
    \/ msg[u].msg_type \in PartUpdateTypes /\ msg[t].msg_type = REQUEST_JOB_INFO

\* C18, as claimed: the lock sets of a partition update and of a job read
\* conflict on no axis, so neither handler ever waits for the other.
C18_NeitherBlocks ==
    \A t, u \in Threads : C18_Pair(t, u) => ~Blocks(u, t)

\* C18, amended: the two lock sets conflict (on the job axis and on the
\* partition axis); the two handlers never hold their lock sets at the
\* same time.
C18_NeverTogether ==
    \A t, u \in Threads :
        ~(pc[t] = "update_part_locked" /\ pc[u] = "dump_jobs")

\* A partition update holds its lock set while a job read, which has the
\* configuration axis, waits for the job axis.
C18_Witness ==
    \E t, u \in Threads :
        /\ pc[t] = "update_part_locked"
        /\ msg[u].msg_type = REQUEST_JOB_INFO
        /\ sync[u].axis = Axis.job
        /\ Blocks(t, u)

TakesRpcMutex(t) ==
    \/ pc[t] = "idle" /\ pc'[t] = "dispatch"
    \/ pc[t] = "done" /\ pc'[t] = "finished"
    \/ /\ pc[t] = "dispatch" /\ msg[t].msg_type = REQUEST_STATS_INFO
       /\ out'[t].kind = "RESPONSE_STATS_INFO"

\* C20: a thread that takes rpc_mutex holds no lock axis, neither when it
\* takes the mutex nor when it gives it back.
C20_MutexApartFromLocks ==
    [][\A t \in Threads : TakesRpcMutex(t) => ~HoldsAny(t) /\ ~HoldsAny(t)']_vars

\* A job complete that took the job and node write locks has been counted
\* in the table of RPC types.
C20_Witness ==
    \E t \in Threads :
        /\ pc[t] = "finished"
        /\ msg[t].msg_type = REQUEST_COMPLETE_JOB_ALLOCATION
        /\ out[t].kind = "rc" /\ out[t].val = SLURM_SUCCESS
        /\ \E i \in DOMAIN rpc_type :
               rpc_type[i].id = REQUEST_COMPLETE_JOB_ALLOCATION /\ rpc_type[i].cnt > 0

(***************************************************************************)
(* The telemetry tables after a reset.                                     *)
(***************************************************************************)
ZeroSlot == [id |-> 0, cnt |-> 0, time |-> 0]

AllZero(tab) == \A i \in DOMAIN tab : tab[i] = ZeroSlot

\* slurmctld_req has returned on thread t from a reset that was let through.
ResetCompleted(t) ==
    /\ pc[t] = "finished"
    /\ loc[t].auth_ok
    /\ msg[t].msg_type = REQUEST_STATS_INFO
    /\ msg[t].command_id = STAT_COMMAND_RESET
    /\ validate_slurm_user(msg[t].uid)

\* C21: when a reset from an authorized caller has completed and no other
\* RPC is in flight, every slot of both tables has id 0, count 0 and
\* latency 0.
C21_ZeroAfterReset ==
    \A t \in Threads :
        (ResetCompleted(t) /\ \A u \in Threads \ {t} : pc[u] = "idle")
            => AllZero(rpc_type) /\ AllZero(rpc_user)

(***************************************************************************)
(* A full telemetry table.                                                 *)
(***************************************************************************)
\* Thread t takes in a message in this step, with a valid credential.
Arrives(t) == pc[t] = "idle" /\ pc'[t] = "dispatch"

\* A step of the invocation on thread t between arrival and return.
OwnStep(t) ==
    /\ pc'[t] # pc[t]
    /\ pc[t] \notin {"idle", "finished", "cond_wait"}

IsReset(m) ==
    m.msg_type = REQUEST_STATS_INFO /\ m.command_id = STAT_COMMAND_RESET

\* C22: an RPC that arrives when its type (its uid) has no slot and the
\* table is full gets no slot, and neither its arrival nor its return nor
\* any step between them changes a slot of that table (the zeroing done
\* by the handler of a reset apart); it is dispatched and answered as any
\* other RPC.
C22_DroppedSample ==
    [][\A t \in Threads :
          /\ (Arrives(t) /\ TypeSlots(rpc_type, msg'[t].msg_type) = {})
                => /\ rpc_type' = rpc_type
                   /\ loc'[t].rpc_type_index = 0 - 1
          /\ (Arrives(t) /\ UserSlots(rpc_user, msg'[t].uid) = {})
                => /\ rpc_user' = rpc_user
                   /\ loc'[t].rpc_user_index = 0 - 1
          /\ (OwnStep(t) /\ loc[t].rpc_type_index < 0 /\ ~IsReset(msg[t]))
                => rpc_type' = rpc_type
          /\ (OwnStep(t) /\ loc[t].rpc_user_index < 0 /\ ~IsReset(msg[t]))
                => rpc_user' = rpc_user
          /\ (pc[t] = "done" /\ pc'[t] = "finished")
                => /\ loc[t].rpc_type_index < 0 => rpc_type' = rpc_type
                   /\ loc[t].rpc_user_index < 0 => rpc_user' = rpc_user
                   /\ Answered(t)]_vars

\* An RPC without a slot in either table has returned, answered, and both
\* tables are still full of other ids.
C22_Witness ==
    \E t \in Threads :
        /\ pc[t] = "finished"
        /\ loc[t].auth_ok
        /\ loc[t].rpc_type_index < 0
        /\ loc[t].rpc_user_index < 0
        /\ Answered(t)
        /\ TypeSlots(rpc_type, msg[t].msg_type) = {}
        /\ UserSlots(rpc_user, msg[t].uid) = {}
        /\ \E i \in DOMAIN rpc_type : rpc_type[i].cnt > 0

(***************************************************************************)
(* Who gets a slot.                                                        *)
(***************************************************************************)
\* The ids that hold a slot of the table.
Held(tab) == {tab[i].id : i \in DOMAIN tab} \ {0}

\* Root has not called since the tables were last empty.
RootUnseen ==
    /\ rpc_user[0].cnt = 0
    /\ \A u \in Threads : pc[u] # "idle" => msg[u].uid # 0

NoneZeroed(tab, tab2) ==
    \A i \in DOMAIN tab : tab2[i] = ZeroSlot => tab[i] = ZeroSlot

\* C24: no step of a reset RPC whose caller is no super-user zeroes a slot
\* of either table, and its handler answers ESLURM_ACCESS_DENIED.
C24_DeniedResetKeepsTables ==
    [][\A t \in Threads :
          LET m == IF pc[t] = "idle" THEN msg'[t] ELSE msg[t]
          IN ((Arrives(t) \/ OwnStep(t)) /\ IsReset(m)
                  /\ ~validate_super_user(m.uid))
               => /\ NoneZeroed(rpc_type, rpc_type')
                  /\ NoneZeroed(rpc_user, rpc_user')
                  /\ pc[t] = "dispatch"
                        => /\ rvars' = rvars
                           /\ out'[t].kind = "rc"
                           /\ out'[t].val = ESLURM_ACCESS_DENIED]_vars

\* The reset of user 2 was answered with the refusal while both tables
\* hold samples.
C24_Witness ==
    \E t \in Threads :
        /\ pc[t] = "done"
        /\ IsReset(msg[t])
        /\ ~validate_super_user(msg[t].uid)
        /\ out[t].kind = "rc"
        /\ out[t].val = ESLURM_ACCESS_DENIED
        /\ \E i \in DOMAIN rpc_type : rpc_type[i].cnt > 0
        /\ \E i \in DOMAIN rpc_user : rpc_user[i].cnt > 0

(***************************************************************************)
(* Job creation that cannot place the job at once.                         *)
(***************************************************************************)
TransientCodes == {ESLURM_NODE_NOT_AVAIL, ESLURM_REQUESTED_PART_CONFIG_UNAVAILABLE,
                   ESLURM_QOS_THRES, ESLURM_JOB_HELD}

\* Thread t comes back from job_allocate in this step.
Created(t) ==
    /\ pc[t] \in {"alloc_locked", "submit_locked"}
    /\ pc'[t] # pc[t]
    /\ loc'[t] # loc[t]
    /\ msg[t].msg_type = REQUEST_SUBMIT_BATCH_JOB => loc'[t].job_id = loc'[t].job_ptr

PayloadKind(m) ==
    IF m.msg_type = REQUEST_SUBMIT_BATCH_JOB
    THEN "RESPONSE_SUBMIT_BATCH_JOB" ELSE "RESPONSE_RESOURCE_ALLOCATION"

IsPending(js, id) ==
    \E j \in js : j.job_id = id /\ j.job_state = "JOB_PENDING"

\* C25: when job_allocate gives one of the four transient codes to a
\* submit or allocate that is not immediate, the reply is the success
\* payload with the id of the new job, which is Pending (for an allocate,
\* unless the payload cannot be written to the client); an immediate
\* request whose job_allocate does not succeed gets a return code that is
\* not SLURM_SUCCESS, and no payload.
C25_TransientIsSuccess ==
    [][\A t \in Threads :
          Created(t) =>
              /\ (msg[t].immediate = 0 /\ loc'[t].error_code \in TransientCodes)
                    => /\ loc'[t].job_ptr # NULL
                       /\ IsPending(jobs', loc'[t].job_ptr)
                       /\ \/ /\ out'[t].kind = PayloadKind(msg[t])
                             /\ out'[t].job_id = loc'[t].job_ptr
                             /\ out'[t].val = loc'[t].error_code
                          \/ /\ msg[t].msg_type = REQUEST_RESOURCE_ALLOCATION
                             /\ out'[t].kind = "send_failed"
              /\ (msg[t].immediate # 0 /\ loc'[t].error_code # SLURM_SUCCESS)
                    => /\ out'[t].kind = "rc"
                       /\ out'[t].val # SLURM_SUCCESS
                       /\ out'[t].val = loc'[t].error_code]_vars

\* A submit that is not immediate was answered with the payload of job 2,
\* which is Pending because of the QOS threshold.
C25_Witness ==
    \E t \in Threads :
        /\ pc[t] = "done"
        /\ msg[t].msg_type = REQUEST_SUBMIT_BATCH_JOB
        /\ msg[t].immediate = 0
        /\ loc[t].error_code = ESLURM_QOS_THRES
        /\ out[t].kind = "RESPONSE_SUBMIT_BATCH_JOB"
        /\ out[t].job_id = loc[t].job_ptr
        /\ IsPending(jobs, loc[t].job_ptr)

(***************************************************************************)
(* Immediate requests.                                                     *)
(***************************************************************************)
IsRunning(js, id) ==
    \E j \in js : j.job_id = id /\ j.job_state = "JOB_RUNNING"

\* C26: an immediate submit or allocate whose job cannot be placed at once
\* is answered with the return code ESLURM_CAN_NOT_START_IMMEDIATELY: none
\* of the codes of a failed placement reaches its client, no job record is
\* kept, and a payload is sent only for a job that runs.
C26_CanNotStartOnly ==
    [][\A t \in Threads :
          (Created(t) /\ msg[t].immediate # 0) =>
              /\ out'[t].val \notin JobWaiting
              /\ loc'[t].error_code \in JobWaiting \cup {ESLURM_CAN_NOT_START_IMMEDIATELY}
                    => /\ out'[t].kind = "rc"
                       /\ out'[t].val = ESLURM_CAN_NOT_START_IMMEDIATELY
                       /\ jobs' = jobs
              /\ out'[t].kind \notin {"rc", "send_failed"}
                    => /\ loc'[t].error_code = SLURM_SUCCESS
                       /\ IsRunning(jobs', loc'[t].job_ptr)]_vars

\* An immediate allocate was refused with ESLURM_CAN_NOT_START_IMMEDIATELY
\* and no job record was added.
C26_Witness ==
    \E t \in Threads :
        /\ pc[t] = "done"
        /\ msg[t].msg_type = REQUEST_RESOURCE_ALLOCATION
        /\ msg[t].immediate # 0
        /\ out[t].kind = "rc"
        /\ out[t].val = ESLURM_CAN_NOT_START_IMMEDIATELY
        /\ find_job_record(jobs, 2) = NULL

(***************************************************************************)
(* A response that cannot be written.                                      *)
(***************************************************************************)
\* The write of thread t's response has failed and the handler goes on.
AfterFailedWrite(t) == OwnStep(t) /\ out[t].kind = "send_failed"

\* C27 as stated: after the failed write the handler changes nothing of
\* the controller's state.
C27_NothingAfterFailedWrite ==
    [][\A t \in Threads : AfterFailedWrite(t) => StoreKept]_vars

\* C27, amended: after the failed write of an allocation response the
\* handler ends the job it has just created and changes nothing else.
C27_KillsNewJobOnly ==
    [][\A t \in Threads :
          AfterFailedWrite(t) =>
              /\ msg[t].msg_type = REQUEST_RESOURCE_ALLOCATION
              /\ UNCHANGED <<nodes, diag, conf, defer_sched, parts, resvs,
                             slurmctld_config, in_progress, want_nodes_reboot>>
              /\ \A j \in jobs : j.job_id # loc[t].job_id => j \in jobs'
              /\ \A j \in jobs' : j.job_id # loc[t].job_id => j \in jobs
              /\ pc[t] # "kill_locked" => jobs' = jobs
              /\ pc[t] = "kill_locked"
                    => \A j \in jobs' :
                          j.job_id = loc[t].job_id => IS_JOB_FINISHED(j)]_vars

\* The allocation of job 2 could not be answered; job 2, which ran, is
\* ended and its nodes are completing.
C27_Witness ==
    \E t \in Threads :
        /\ pc[t] = "done"
        /\ out[t].kind = "send_failed"
        /\ loc[t].error_code = SLURM_SUCCESS
        /\ \E j \in jobs : /\ j.job_id = loc[t].job_id
                            /\ j.job_state = "JOB_COMPLETE"
                            /\ IS_JOB_COMPLETING(j)

(***************************************************************************)
(* Reconfiguration while batch jobs are being submitted.                   *)
(***************************************************************************)
SubmitInFlight(t) ==
    msg[t].msg_type = REQUEST_SUBMIT_BATCH_JOB /\ pc[t] \notin {"idle", "done"}

\* The reconfiguration on thread t waits for its locks.
ReconfigureWaits(t) ==
    /\ msg[t].msg_type = REQUEST_RECONFIGURE
    /\ pc[t] = "lock"
    /\ \E u \in Threads : SubmitInFlight(u)

\* It has returned: with SLURM_SUCCESS and the scheduler kicked, or with
\* the error of read_slurm_conf.
ReconfigureReturned(t) ==
    /\ msg[t].msg_type = REQUEST_RECONFIGURE
    /\ pc[t] = "done"
    /\ out[t].kind = "rc"
    /\ out[t].val = loc[t].error_code
    /\ out[t].kick = (out[t].val = SLURM_SUCCESS)

C29_ReadersGetThrough ==
    \A t \in Threads :
        (msg[t].msg_type = REQUEST_JOB_INFO /\ pc[t] = "lock")
            ~> (msg[t].msg_type = REQUEST_JOB_INFO /\ pc[t] = "done")

(***************************************************************************)
(* The count of cancelled jobs.                                            *)
(***************************************************************************)
\* The jobs a SIGKILL of the whole job has cancelled so far.
Cancelled == {j \in jobs : j.job_state = "JOB_CANCELLED"}

\* C30: once every cancel that succeeded has done its count,
\* jobs_canceled has grown by one for each of them, whether they ran one
\* after the other or at the same time.
C30_CountsEveryCancel ==
    (\A t \in Threads : pc[t] \notin {"kill_count", "kill_store"})
        => diag.jobs_canceled = Cardinality(Cancelled)

\* ---------------------------------------------------------------------
\* C31: step creation while the prolog of the job is still running

\* The request of thread t is from the owner of a job that is not finished
\* and whose prolog is still running.
PrologPending(t) ==
    \E j \in jobs : /\ j.job_id = msg[t].job_id
                    /\ j.user_id = msg[t].uid
                    /\ ~IS_JOB_FINISHED(j)
                    /\ j.prolog_running

StepCreateActs(t) ==
    /\ pc[t] = "step_create_locked" /\ pc'[t] = "done"
    /\ msg[t].user_id = msg[t].uid

BatchLaunchActs(t) ==
    pc[t] = "submit_locked" /\ pc'[t] = "done"

\* C31: a request to create a step in a job whose prolog has not finished is
\* answered with ESLURM_PROLOG_RUNNING and leaves no new step record, on the
\* step-create path and on the batch-step launch path.
C31_PrologRunningOnEveryPath ==
    [][\A t \in Threads :
          ((StepCreateActs(t) \/ BatchLaunchActs(t)) /\ PrologPending(t))
          => /\ out'[t].kind = "rc"
             /\ out'[t].val = ESLURM_PROLOG_RUNNING
             /\ jobs' = jobs]_vars

\* C31 (amended): such a request leaves no new step record on either path;
\* the step-create path answers ESLURM_PROLOG_RUNNING, the batch-step launch
\* path answers EAGAIN.
C31_PrologRunningOrAgain ==
    [][\A t \in Threads :
          /\ (StepCreateActs(t) /\ PrologPending(t))
             => /\ out'[t].kind = "rc"
                /\ out'[t].val = ESLURM_PROLOG_RUNNING
                /\ jobs' = jobs
          /\ (BatchLaunchActs(t) /\ PrologPending(t))
             => /\ out'[t].kind = "rc"
                /\ out'[t].val = EAGAIN
                /\ jobs' = jobs]_vars

\* Both paths have refused a step of job 1, whose prolog is running.
C31_Witness ==
    /\ \E j \in jobs : j.job_id = 1 /\ j.prolog_running /\ j.steps = {}
    /\ \E t, u \in Threads :
          /\ pc[t] = "done" /\ msg[t].msg_type = REQUEST_JOB_STEP_CREATE
          /\ out[t].kind = "rc" /\ out[t].val = ESLURM_PROLOG_RUNNING
          /\ pc[u] = "done" /\ msg[u].msg_type = REQUEST_SUBMIT_BATCH_JOB
          /\ out[u].kind = "rc" /\ out[u].val = EAGAIN

\* ---------------------------------------------------------------------
\* C32: which nodes a reboot request marks

Listed(t) == reboot_bitmap(nodes, msg[t].node_list).bitmap

CloudPoweredOff(n) == IS_NODE_CLOUD(n) /\ IS_NODE_POWER_SAVE(n)

\* C32: a successful reboot request leaves NODE_STATE_MAINT set on exactly
\* those listed nodes that are not down, not future and not cloud nodes
\* that are powered down, besides the nodes that had it before, and
\* changes nothing else of any node.
C32_MaintOnListedOnly ==
    [][\A t \in Threads :
          (pc[t] = "reboot_locked" /\ pc'[t] = "done")
          => /\ out'[t].val = SLURM_SUCCESS
             /\ \A n \in Nodes :
                   /\ (/\ n \in Listed(t)
                       /\ ~IS_NODE_DOWN(nodes[n])
                       /\ ~IS_NODE_FUTURE(nodes[n])
                       /\ ~CloudPoweredOff(nodes[n]))
                      => nodes'[n] = [nodes[n] EXCEPT
                                         !.flags = @ \cup {NODE_STATE_MAINT}]
                   /\ (\/ n \notin Listed(t)
                       \/ IS_NODE_DOWN(nodes[n])
                       \/ IS_NODE_FUTURE(nodes[n])
                       \/ CloudPoweredOff(nodes[n]))
                      => nodes'[n] = nodes[n]]_vars

\* A request for all nodes has marked one and has left alone the other
\* node, a cloud node that is powered down.
C32_Witness ==
    \E t \in Threads :
        /\ pc[t] = "done"
        /\ msg[t].msg_type = REQUEST_REBOOT_NODES
        /\ msg[t].node_list = "all"
        /\ out[t].val = SLURM_SUCCESS
        /\ IS_NODE_MAINT(nodes["n1"])
        /\ nodes["n1"].base = "NODE_STATE_IDLE"
        /\ CloudPoweredOff(nodes["n2"]) /\ ~IS_NODE_MAINT(nodes["n2"])
        /\ out[t].node_save

\* ---------------------------------------------------------------------
\* C33: _throttle_start and _throttle_fini come in pairs

\* Thread t has called _throttle_start for handler h and has not yet
\* called _throttle_fini.
BetweenStartAndFini(t, h) ==
    sync[t].gate = h /\ pc[t] \in {"lock", sync[t].ret}

\* C33: the counter of each throttled handler is 0 or 1 in every reachable
\* state, and it is the number of invocations of that handler that have
\* called _throttle_start and not yet _throttle_fini: each fini follows
\* one start of the same invocation, each start is followed by one fini
\* before the handler returns.
C33_CounterZeroOrOne ==
    \A h \in Throttled :
        /\ active_rpc_cnt[h] \in {0, 1}
        /\ active_rpc_cnt[h] =
              Cardinality({t \in Threads : BetweenStartAndFini(t, h)})

\* One handler is inside its gate while another invocation of the same
\* handler waits, and a different handler is not hindered.
C33_Witness ==
    \E t, u \in Threads :
        /\ BetweenStartAndFini(t, "submit_batch_job")
        /\ pc[u] = "cond_wait" /\ sync[u].gate = "submit_batch_job"
        /\ active_rpc_cnt["submit_batch_job"] = 1
        /\ active_rpc_cnt["job_step_kill"] = 0

\* ---------------------------------------------------------------------
\* C34: overlapping reconfigure requests

\* The reconfigure request of thread t has passed the test of in_progress
\* and has not yet finished read_slurm_conf: it reconfigures or is about to.
Reconfigures(t) ==
    /\ msg[t].msg_type = REQUEST_RECONFIGURE
    /\ validate_super_user(msg[t].uid)
    /\ pc[t] \in {"lock", "reconf_locked", "reconf_read"}

\* C34: of two reconfigure requests of super users that overlap in time at
\* most one performs the reconfiguration; the other one is answered with
\* EINPROGRESS and is never on its way to read_slurm_conf.
C34_OneReconfigures ==
    \A t, u \in Threads : (t # u /\ Reconfigures(t)) => ~Reconfigures(u)

\* ---------------------------------------------------------------------
\* C35: the ids of the telemetry tables

Occupied(tab) == {i \in DOMAIN tab : tab[i].id # 0}

Distinct(tab) ==
    \A i, k \in Occupied(tab) : i # k => tab[i].id # tab[k].id

ContiguousFrom(tab, first) ==
    \A i \in Occupied(tab) : i >= first /\ \A k \in first..(i - 1) : k \in Occupied(tab)

\* C35: in every reachable state, after resets too, the ids that are not 0
\* are pairwise distinct in each table and fill the slots without a gap,
\* from slot 0 in the type table and from slot 1 in the user table (slot 0
\* is kept for uid 0), so that a dump, which stops at the first id 0,
\* packs every occupied slot.
C35_IdsDistinctAndContiguous ==
    /\ Distinct(rpc_type) /\ ContiguousFrom(rpc_type, 0)
    /\ Distinct(rpc_user) /\ ContiguousFrom(rpc_user, 1)
    /\ Occupied(rpc_type) \subseteq 0..(pack_rpc_count(rpc_type, 0) - 1)
    /\ Occupied(rpc_user) \subseteq 0..(pack_rpc_count(rpc_user, 1) - 1)

\* Both tables were filled again after a reset, whose handler has not yet
\* returned.
C35_Witness ==
    /\ \E t \in Threads : /\ pc[t] \in {"done", "finished"}
                          /\ msg[t].msg_type = REQUEST_STATS_INFO
                          /\ msg[t].command_id = STAT_COMMAND_RESET
                          /\ out[t].kind = "RESPONSE_STATS_INFO"
                          /\ msg[t].uid \notin {rpc_user[i].id : i \in {1}}
    /\ Occupied(rpc_user) = {1, 2}
    /\ Occupied(rpc_type) = {0, 1}

\* ---------------------------------------------------------------------
\* C36: the throttle gate and the locks

IsThrottled(t) == msg[t].msg_type \in ThrottledTypes

\* Thread t asks for an axis or holds one.
AsksOrHolds(t) == pc[t] = "lock" \/ HoldsAny(t)

InsideGate(t) ==
    /\ sync[t].gate # ""
    /\ BetweenStartAndFini(t, sync[t].gate)
    /\ active_rpc_cnt[sync[t].gate] = 1

\* The locks a throttled handler takes outside its gate: the job read lock
\* around validate_job_create_req, before the gate, and the locks of
\* _kill_job_on_msg_fail, after it.
OutsideGate(t) ==
    /\ sync[t].gate = ""
    /\ \/ /\ sync[t].ret \in {"alloc_validate", "submit_validate"}
          /\ \A a \in 1..NAxes : locks[a].w # t
       \/ sync[t].ret = "kill_locked"

\* C36: in every throttled handler the gate is taken before any axis is
\* requested and released only after all axes have been released: a
\* throttled handler asks for an axis or holds one only inside its gate,
\* and no thread waits at the gate holding an axis.
C36_GateAroundEveryLock ==
    \A t \in Threads :
        /\ (IsThrottled(t) /\ AsksOrHolds(t)) => InsideGate(t)
        /\ AtGate(t) => ~HoldsAny(t)

\* C36 (amended): no thread waits at the gate holding an axis, and a
\* throttled handler asks for an axis or holds one only inside its gate,
\* but for the job read lock of the validation in allocate and submit,
\* given back before the gate, and the locks of _kill_job_on_msg_fail in
\* allocate, taken after the gate was left.
C36_GateAroundGatedLocks ==
    \A t \in Threads :
        /\ (IsThrottled(t) /\ AsksOrHolds(t)) => (InsideGate(t) \/ OutsideGate(t))
        /\ AtGate(t) => ~HoldsAny(t)

\* One submit holds its write locks inside the gate, another one has
\* validated, has given back its read lock and waits at the gate.
C36_Witness ==
    \E t, u \in Threads :
        /\ msg[t].msg_type = REQUEST_SUBMIT_BATCH_JOB
        /\ InsideGate(t) /\ pc[t] = "submit_locked" /\ HoldsAny(t)
        /\ msg[u].msg_type = REQUEST_SUBMIT_BATCH_JOB
        /\ pc[u] = "cond_wait" /\ ~HoldsAny(u)
        /\ loc[u].error_code = SLURM_SUCCESS

\* ---------------------------------------------------------------------
\* C37: a batch complete from a node that is not the batch host

\* The job of the message is there and its batch host is another node
\* than the sender.
FromOtherNode(t) ==
    \E j \in jobs : /\ j.job_id = msg[t].job_id
                    /\ j.batch_host # ""
                    /\ j.batch_host # msg[t].node_name

\* C37: a batch complete that comes from a node other than the batch host
\* of the job changes no job and no node, drains no node whatever its
\* slurm_rc is, is answered with SLURM_SUCCESS and leaves the locks and
\* the throttle gate free.
C37_WrongNodeIgnored ==
    [][\A t \in Threads :
          (pc[t] = "cbs_locked" /\ pc'[t] = "done" /\ FromOtherNode(t))
          => /\ jobs' = jobs /\ nodes' = nodes /\ diag' = diag
             /\ out'[t].kind = "rc" /\ out'[t].val = SLURM_SUCCESS
             /\ ~out'[t].node_save /\ ~out'[t].job_save /\ ~out'[t].sched
             /\ \A a \in 1..NAxes : locks'[a].w # t /\ t \notin locks'[a].r
             /\ active_rpc_cnt'["complete_batch_script"] =
                   active_rpc_cnt["complete_batch_script"] - 1]_vars

\* Node n2 has reported a fatal return code for a job whose batch host is
\* n1, was answered with success and is not drained.
C37_Witness ==
    \E t \in Threads :
        /\ pc[t] = "done"
        /\ msg[t].msg_type = REQUEST_COMPLETE_BATCH_SCRIPT
        /\ validate_slurm_user(msg[t].uid)
        /\ msg[t].slurm_rc = ESLURMD_PROLOG_FAILED
        /\ msg[t].node_name = "n2"
        /\ FromOtherNode(t)
        /\ out[t].kind = "rc" /\ out[t].val = SLURM_SUCCESS
        /\ ~nodes["n2"].drain
        /\ active_rpc_cnt["complete_batch_script"] = 0

\* ---------------------------------------------------------------------
\* C38: an update of a node by a caller who is no super user

\* C38: an update-node request of a caller who is no super user is answered
\* with an error and has no other effect: no node is changed, no save of
\* the node state is scheduled and the scheduler is not kicked.
C38_DeniedUpdateNodeNoEffect ==
    [][\A t \in Threads :
          (/\ pc[t] = "dispatch" /\ pc'[t] # pc[t]
           /\ msg[t].msg_type = REQUEST_UPDATE_NODE
           /\ ~validate_super_user(msg[t].uid))
          => /\ pc'[t] = "done"
             /\ out'[t].kind = "rc" /\ out'[t].val = ESLURM_USER_ID_MISSING
             /\ nodes' = nodes /\ jobs' = jobs
             /\ ~out'[t].node_save
             /\ ~out'[t].kick]_vars

\* ---------------------------------------------------------------------
\* C39: a step-creating request that fails after its step record was made

\* The step records of the job store, each with the id of its job.
StepRecords(js) ==
    UNION {{<<j.job_id, st.step_id>> : st \in j.steps} : j \in js}

\* C39: when a request that creates a step is answered with an error, no
\* step record of that request is left with the job, on the step-create
\* path and on the batch-step launch path.
C39_NoStepLeftOnFailure ==
    [][\A t \in Threads :
          (/\ \/ pc[t] = "step_create_locked" /\ pc'[t] = "done"
              \/ pc[t] = "submit_locked" /\ pc'[t] = "done"
           /\ out'[t].kind = "rc"
           /\ out'[t].val # SLURM_SUCCESS)
          => StepRecords(jobs') \subseteq StepRecords(jobs)]_vars

\* ---------------------------------------------------------------------
\* C40: the table of PBS dependency options

\* The name of an option, up to its colon, and what follows the name.
RECURSIVE OptionName(_)
OptionName(tok) ==
    IF tok = <<>> \/ Head(tok) = ":" THEN <<>>
    ELSE <<Head(tok)>> \o OptionName(Tail(tok))

OptionRest(tok) == SubSeq(tok, Len(OptionName(tok)) + 1, Len(tok))

\* The table: what an option becomes, <<>> for one that is discarded.
Tabulated(tok) ==
    LET name == OptionName(tok)
    IN IF name \in {str_after, str_afterok, str_afternotok, str_expand,
                    str_singleton}
       THEN tok
       ELSE IF name = str_afterany THEN str_after \o OptionRest(tok)
       ELSE <<>>

RECURSIVE TabulatedAll(_)
TabulatedAll(toks) ==
    IF toks = <<>> THEN <<>>
    ELSE LET first == Tabulated(Head(toks))
             rest == TabulatedAll(Tail(toks))
         IN IF first = <<>> THEN rest
            ELSE IF rest = <<>> THEN first
            ELSE first \o <<",">> \o rest

\* C40: job_submit and job_modify replace each PBS dependency option as the
\* table says: after, afterok, afternotok, expand and singleton are kept,
\* afterany becomes after, before, beforeok, beforenotok, beforeany and on
\* are discarded; what is kept stays in its order, with commas in between.
C40_TranslatedAsTabulated ==
    [][\A t \in Threads :
          (pc[t] \in {"job_submit", "job_modify"} /\ pc'[t] = "done"
           /\ ~msg[t].dependency.null)
          => msg'[t].dependency.str =
                TabulatedAll(strtok_r(msg[t].dependency.str, <<>>))]_vars

====
